---- MODULE Spec2Model ----
(***************************************************************************)
(* Glyph resolution and caching of epaint's text/font.rs: the single-      *)
(* typeface provider FontImpl, the fallback aggregator Font, and the       *)
(* texture atlas they share.  Characters are Unicode code points, lengths  *)
(* are integers in a unit fine enough that the divisions the code performs *)
(* on the typefaces below are exact.                                       *)
(***************************************************************************)
EXTENDS Integers, Sequences, FiniteSets, TLC

(***************************************************************************)
(* Code points the code names.                                             *)
(***************************************************************************)
TAB == 9
CR == 13
SPACE == 32
QUESTION == 63
LETTER_A == 65
THIN_SPACE == 8201
ZWSP == 8203
LRE == 8234
PRIMARY_REPLACEMENT_CHAR == 9723
FALLBACK_REPLACEMENT_CHAR == QUESTION
SWASTIKA == 21325
UBUNTU_PRIVATE == 57599

\* The characters callers ask about.
Chars ==
    {TAB, CR, SPACE, QUESTION, LETTER_A, THIN_SPACE,
     PRIMARY_REPLACEMENT_CHAR, SWASTIKA}

\* Every code point some rule of the code singles out, plus neighbours.
AllChars ==
    Chars \cup {ZWSP, LRE, 8293, UBUNTU_PRIVATE, 21328, 61437, 61695, 61952,
                65279, 8202, 8208}

TAB_SIZE == 4

U16 == 65536

(***************************************************************************)
(* Option values.                                                          *)
(***************************************************************************)
None == [some |-> FALSE]
Some(v) == [some |-> TRUE, val |-> v]

(***************************************************************************)
(* UvRect and GlyphInfo.                                                   *)
(***************************************************************************)
UvRectDefault ==
    [offset |-> <<0, 0>>, size |-> <<0, 0>>, min |-> <<0, 0>>, max |-> <<0, 0>>]

is_nothing(uv) == uv.min = uv.max

GlyphInfoDefault == [id |-> 0, advance_width |-> 0, uv_rect |-> UvRectDefault]

(***************************************************************************)
(* Typefaces (ab_glyph fonts), as the tables the provider reads: cmap      *)
(* gives the glyph id of a character (0: none), glyphs gives per glyph id  *)
(* the pixel bounding box of its outline at the provider's scale (bb =     *)
(* <<min.x, min.y, width, height>>, or no outline) and its advance.        *)
(***************************************************************************)
NoOutline == <<>>

FaceLatin ==
    [cmap |-> (SPACE :> 1) @@ (QUESTION :> 2) @@ (LETTER_A :> 3) @@
              (SWASTIKA :> 4) @@ (CR :> 5),
     glyphs |-> (1 :> [bb |-> NoOutline, h_advance |-> 10]) @@
                (2 :> [bb |-> <<0, -8, 4, 8>>, h_advance |-> 12]) @@
                (3 :> [bb |-> <<0, -10, 6, 10>>, h_advance |-> 16]) @@
                (4 :> [bb |-> <<2, -8, 8, 8>>, h_advance |-> 20]) @@
                (5 :> [bb |-> <<0, -2, 2, 2>>, h_advance |-> 4]),
     ascent |-> 18, descent |-> -6, line_gap |-> 0]

FaceSymbols ==
    [cmap |-> (PRIMARY_REPLACEMENT_CHAR :> 1) @@ (TAB :> 2) @@ (THIN_SPACE :> 3) @@
              (LETTER_A :> 4) @@ (SWASTIKA :> 5) @@ (ZWSP :> 6),
     glyphs |-> (1 :> [bb |-> <<2, -6, 6, 6>>, h_advance |-> 12]) @@
                (2 :> [bb |-> <<0, -2, 2, 2>>, h_advance |-> 4]) @@
                (3 :> [bb |-> NoOutline, h_advance |-> 2]) @@
                (4 :> [bb |-> <<0, -8, 8, 8>>, h_advance |-> 20]) @@
                (5 :> [bb |-> <<0, -8, 8, 8>>, h_advance |-> 16]) @@
                (6 :> [bb |-> <<0, -4, 2, 4>>, h_advance |-> 4]),
     ascent |-> 12, descent |-> -4, line_gap |-> 2]

\* '?' and 'A' share one glyph, whose outline has no width.
FaceOdd ==
    [cmap |-> (QUESTION :> 1) @@ (LETTER_A :> 1) @@ (SPACE :> 2),
     glyphs |-> (1 :> [bb |-> <<0, 0, 0, 4>>, h_advance |-> 8]) @@
                (2 :> [bb |-> <<0, -4, 2, 4>>, h_advance |-> 6]),
     ascent |-> 13, descent |-> -4, line_gap |-> 0]

\* Neither replacement candidate, no space.
FaceBare ==
    [cmap |-> (LETTER_A :> 1) @@ (SWASTIKA :> 2),
     glyphs |-> (1 :> [bb |-> <<0, -8, 4, 8>>, h_advance |-> 12]) @@
                (2 :> [bb |-> <<0, -8, 8, 8>>, h_advance |-> 16]),
     ascent |-> 12, descent |-> -6, line_gap |-> 0]

\* ab_glyph::Font::glyph_id
Face_glyph_id(face, c) == IF c \in DOMAIN face.cmap THEN face.cmap[c] ELSE 0

\* ab_glyph::Font::codepoint_ids, the characters only
Face_codepoints(face) == {c \in DOMAIN face.cmap : face.cmap[c] # 0}

\* FontDefinitions::builtin_font_names
BuiltinFontNames == {"Ubuntu-Light", "NotoEmoji-Regular", "emoji-icon-font", "Hack"}

(***************************************************************************)
(* Lengths in points are integers counting 1/POINT of a point.  POINT is   *)
(* GRID (emath::GUI_ROUNDING is 1/GRID of a point) times 6, so that a      *)
(* grid-rounded length divides by 6, and every pixel length divides by the *)
(* pixels_per_point values 1, 2 and 3 used here, without remainder.        *)
(* round_ui rounds the quotient num/den to the nearest multiple of the     *)
(* grid unit, halves away from zero as f32::round does.                    *)
(***************************************************************************)
GRID == 32

POINT == 6 * GRID

Abs(x) == IF x < 0 THEN -x ELSE x

Sign(x) == IF x < 0 THEN -1 ELSE 1

round_ui(num, den) ==
    Sign(num) * (POINT \div GRID) * ((2 * Abs(num) * GRID + den) \div (2 * den))

\* The quotient of a pixel length by pixels_per_point.
InPoints(px, pixels_per_point) == (px * POINT) \div pixels_per_point

(***************************************************************************)
(* FontImpl::new with FontTweak::default() (scale 1, no offsets).  The     *)
(* glyph cache and the atlas handle are state, kept in glyph_info_cache    *)
(* and atlas below.                                                        *)
(***************************************************************************)
\* A failed assert!: the call panics and returns nothing.
Panic == [panic |-> TRUE]

AssertsAllowZeroScale(scale_in_pixels, pixels_per_point) ==
    scale_in_pixels >= 0 /\ pixels_per_point > 0

\* assert!(scale_in_pixels > 0.0, ..); assert!(pixels_per_point > 0.0, ..)
new_asserts(scale_in_pixels, pixels_per_point) ==
    scale_in_pixels > 0 /\ pixels_per_point > 0

NewRoundsSum(pixels_per_point, name, ab_glyph_font, scale_in_pixels) ==
    IF ~new_asserts(scale_in_pixels, pixels_per_point)
    THEN Panic
    ELSE
    LET ascent == round_ui(ab_glyph_font.ascent, pixels_per_point)
    IN  [name |-> name,
         ab_glyph_font |-> ab_glyph_font,
         scale_in_pixels |-> scale_in_pixels,
         height_in_points |->
             round_ui(ab_glyph_font.ascent - ab_glyph_font.descent
                          + ab_glyph_font.line_gap, pixels_per_point),
         y_offset_in_points |-> 0,
         ascent |-> ascent,
         pixels_per_point |-> pixels_per_point]

FontImpl_new(pixels_per_point, name, ab_glyph_font, scale_in_pixels) ==
    IF ~new_asserts(scale_in_pixels, pixels_per_point)
    THEN Panic
    ELSE
    LET ascent == round_ui(ab_glyph_font.ascent, pixels_per_point)
        descent == round_ui(ab_glyph_font.descent, pixels_per_point)
        line_gap == round_ui(ab_glyph_font.line_gap, pixels_per_point)
    IN  [name |-> name,
         ab_glyph_font |-> ab_glyph_font,
         scale_in_pixels |-> scale_in_pixels,
         height_in_points |-> ascent - descent + line_gap,
         y_offset_in_points |-> 0,
         ascent |-> ascent,
         pixels_per_point |-> pixels_per_point]

FontImpl_row_height(fi) == fi.height_in_points

FontImpl_pixels_per_point(fi) == fi.pixels_per_point

FontImpl_ascent(fi) == fi.ascent

\* The provider sets a run may start with: provider 1, provider 2.
FontImplSetups ==
    {<<FontImpl_new(1, "Ubuntu-Light", FaceLatin, 24),
       FontImpl_new(2, "my_icons", FaceSymbols, 16)>>,
     <<FontImpl_new(3, "my_odd", FaceOdd, 18),
       FontImpl_new(1, "Hack", FaceBare, 16)>>,
     <<FontImpl_new(2, "emoji-icon-font", FaceBare, 16),
       FontImpl_new(1, "my_bare", FaceBare, 20)>>}

IgnoreWithoutNameCheck(fi, chr) ==
    chr \in {21325, 21328, 57599, 61437, 61695, 61952}

ignore_character(fi, chr) ==
    IF fi.name \notin BuiltinFontNames
    THEN FALSE
    ELSE chr \in {21325, 21328, 57599, 61437, 61695, 61952}

FontImpl_characters(fi) ==
    {chr \in Face_codepoints(fi.ab_glyph_font) : ~ignore_character(fi, chr)}

InvisibleWithoutCR(c) ==
    c \in (8203 .. 8207) \cup (8234 .. 8238) \cup (8288 .. 8292)
              \cup (8294 .. 8303) \cup {65279}

invisible_char(c) ==
    IF c = CR
    THEN TRUE
    ELSE c \in {8203, 8204, 8205, 8206, 8207,
                8234, 8235, 8236, 8237, 8238,
                8288, 8289, 8290, 8291, 8292,
                8294, 8295, 8296, 8297, 8298, 8299, 8300, 8301, 8302, 8303,
                65279}

(***************************************************************************)
(* State.                                                                  *)
(*   font_impls        the providers (immutable after construction)        *)
(*   glyph_info_cache  per provider, FontImpl::glyph_info_cache            *)
(*   atlas             the shared TextureAtlas: its cursor and the regions  *)
(*                     handed out, each with the provider and character it  *)
(*                     was allocated for and whether its pixels are drawn   *)
(*   font              the aggregators (NoFont: not constructed yet)       *)
(*   ret               the last call: operation, aggregator, argument,     *)
(*                     return value, the trace of provider and atlas       *)
(*                     events it made, and the number of calls so far      *)
(*   pre               the caches, atlas and aggregators before that call  *)
(* and, for providers called from several threads at once:                 *)
(*   th                per thread, the provider whose glyph_info it runs,  *)
(*                     its stack of glyph_info frames, and what its calls  *)
(*                     returned                                            *)
(*   atlas_lock        the thread holding the Mutex of the atlas, or 0     *)
(*   cache_lock        per provider, the threads holding the RwLock of its *)
(*                     glyph_info_cache for reading, and the writer or 0   *)
(*   atlas_log         the allocations and pixel writes made to the atlas, *)
(*                     in order, each with the thread that made it         *)
(***************************************************************************)
VARIABLES font_impls, glyph_info_cache, atlas, font, ret, pre,
          th, atlas_lock, cache_lock, atlas_log

vars == <<font_impls, glyph_info_cache, atlas, font, ret, pre,
          th, atlas_lock, cache_lock, atlas_log>>

thread_vars == <<th, atlas_lock, cache_lock, atlas_log>>

Providers == {1, 2}

Threads == {1, 2}

\* A thread that is in no call.
IdleThread == [p |-> 0, stack |-> <<>>, results |-> <<>>]

\* No thread is in a call and no lock is held.
NoThreads ==
    /\ th = [t \in Threads |-> IdleThread]
    /\ atlas_lock = 0
    /\ cache_lock = [p \in Providers |-> [readers |-> {}, writer |-> 0]]
    /\ atlas_log = <<>>

FontSlots == {1, 2}

NoFont == [constructed |-> FALSE]

InsertIntoEmptied(map, k, v) == (k :> v)

\* HashMap::insert
Insert(map, k, v) == (k :> v) @@ map

EmptyMap == <<>>

(***************************************************************************)
(* The part of the state a resolution threads through: the provider        *)
(* caches, the atlas and the trace of the current call.                    *)
(***************************************************************************)
World == [cache |-> glyph_info_cache, atlas |-> atlas, trace |-> <<>>]

PreWorld == [cache |-> pre.glyph_info_cache, atlas |-> pre.atlas, trace |-> <<>>]

Log(w, e) == [w EXCEPT !.trace = Append(@, e)]

(***************************************************************************)
(* TextureAtlas::allocate: reserves a fresh w x h region and returns its   *)
(* position.  Regions are packed in rows from left to right: at the cursor *)
(* if the region fits in the row, else at the start of a new row below.    *)
(* The atlas is AtlasSide texels wide, the largest the 16-bit texel        *)
(* coordinates are meant for.                                              *)
(***************************************************************************)
AtlasSide == U16

TextureAtlas_allocate(a, size, owner) ==
    LET fits == a.cursor[1] + size[1] <= AtlasSide
        pos == IF fits THEN a.cursor ELSE <<0, a.cursor[2] + a.row_height>>
        row_height == IF fits /\ a.row_height > size[2]
                      THEN a.row_height
                      ELSE size[2]
    IN  [pos |-> pos,
         atlas |-> [cursor |-> <<pos[1] + size[1], pos[2]>>,
                    row_height |-> row_height,
                    regions |-> Append(a.regions,
                                       [pos |-> pos, size |-> size,
                                        font |-> owner.font, chr |-> owner.chr])]]

\* The atlas the providers are constructed over: empty, or with a first row
\* that others have filled but for its last 4 texels.
InitialAtlases ==
    {[cursor |-> <<0, 0>>, row_height |-> 0, regions |-> <<>>],
     [cursor |-> <<AtlasSide - 4, 0>>, row_height |-> 16, regions |-> <<>>]}

(***************************************************************************)
(* FontImpl::allocate_glyph, called by glyph_info of provider p for c.     *)
(***************************************************************************)
allocate_glyph(w, p, c, glyph_id) ==
    LET fi == font_impls[p]
        glyph == fi.ab_glyph_font.glyphs[glyph_id]
        bb == glyph.bb
        advance_width_in_points == InPoints(glyph.h_advance, fi.pixels_per_point)
        w1 == Log(w, [ev |-> "allocate_glyph", font |-> p, chr |-> c, id |-> glyph_id])
    IN  IF glyph_id = 0
        THEN [w |-> w1, ret |-> Panic]
        ELSE
        IF bb = NoOutline \/ bb[3] = 0 \/ bb[4] = 0
        THEN [w |-> w1,
              ret |-> [id |-> glyph_id,
                       advance_width |-> advance_width_in_points,
                       uv_rect |-> UvRectDefault]]
        ELSE LET glyph_width == bb[3]
                 glyph_height == bb[4]
                 w2 == Log(w1, [ev |-> "lock", font |-> p, chr |-> c])
                 al == TextureAtlas_allocate(w2.atlas, <<glyph_width, glyph_height>>,
                                             [font |-> p, chr |-> c])
                 glyph_pos == al.pos
                 w3 == Log([w2 EXCEPT !.atlas = al.atlas],
                           [ev |-> "allocate", font |-> p, chr |-> c])
                 w4 == Log(w3, [ev |-> "draw", font |-> p, chr |-> c])
                 w5 == Log(w4, [ev |-> "unlock", font |-> p, chr |-> c])
                 uv_rect ==
                     [offset |-> <<InPoints(bb[1], fi.pixels_per_point),
                                   InPoints(bb[2], fi.pixels_per_point)
                                       + fi.y_offset_in_points>>,
                      size |-> <<InPoints(glyph_width, fi.pixels_per_point),
                                 InPoints(glyph_height, fi.pixels_per_point)>>,
                      min |-> <<glyph_pos[1] % U16, glyph_pos[2] % U16>>,
                      max |-> <<(glyph_pos[1] + glyph_width) % U16,
                                (glyph_pos[2] + glyph_height) % U16>>]
             IN  [w |-> w5,
                  ret |-> [id |-> glyph_id,
                           advance_width |-> advance_width_in_points,
                           uv_rect |-> uv_rect]]

\* self.glyph_info_cache.write().insert(c, glyph_info)
CacheInsertDropped(w, p, c, glyph_info) == w

CacheInsert(w, p, c, glyph_info) ==
    Log([w EXCEPT !.cache[p] = Insert(@, c, glyph_info)],
        [ev |-> "insert", font |-> p, chr |-> c])

Min(a, b) == IF a < b THEN a ELSE b

NeverUnsupported(glyph_id) == FALSE

\* if glyph_id.0 == 0 { None // unsupported character }
unsupported(glyph_id) == glyph_id = 0

TabAdvanceOfSpace(space) == space

\* GlyphInfo { advance_width: TAB_SIZE as f32 * space.advance_width, ..space }
tab_glyph_info(space) ==
    [space EXCEPT !.advance_width = TAB_SIZE * space.advance_width]

ThinSpaceHalfOfSpace(fi, space) ==
    [space EXCEPT !.advance_width = space.advance_width \div 2]

\* let em = self.height_in_points;
\* GlyphInfo { advance_width: f32::min(em / 6.0, space.advance_width * 0.5), ..space }
thin_space_glyph_info(fi, space) ==
    LET em == fi.height_in_points
        advance_width == Min(em \div 6, space.advance_width \div 2)
    IN  [space EXCEPT !.advance_width = advance_width]

(***************************************************************************)
(* FontImpl::glyph_info.  Returns the world after the call and the Option  *)
(* it returns.                                                             *)
(***************************************************************************)
RECURSIVE FontImpl_glyph_info(_, _, _)
FontImpl_glyph_info(w, p, c) ==
    LET fi == font_impls[p]
        w0 == Log(w, [ev |-> "glyph_info", font |-> p, chr |-> c])
    IN  IF c \in DOMAIN w0.cache[p]
        THEN [w |-> Log(w0, [ev |-> "hit", font |-> p, chr |-> c]),
              ret |-> Some(w0.cache[p][c])]
        ELSE IF ignore_character(fi, c)
        THEN [w |-> w0, ret |-> None]
        ELSE
          LET space == IF c = TAB \/ c = THIN_SPACE
                       THEN FontImpl_glyph_info(w0, p, SPACE)
                       ELSE [w |-> w0, ret |-> None]
              w1 == space.w
          IN  IF c = TAB /\ space.ret.some
              THEN LET glyph_info == tab_glyph_info(space.ret.val)
                   IN  [w |-> CacheInsert(w1, p, c, glyph_info), ret |-> Some(glyph_info)]
              ELSE IF c = THIN_SPACE /\ space.ret.some
              THEN LET glyph_info == thin_space_glyph_info(fi, space.ret.val)
                   IN  [w |-> CacheInsert(w1, p, c, glyph_info), ret |-> Some(glyph_info)]
              ELSE IF invisible_char(c)
              THEN [w |-> CacheInsert(w1, p, c, GlyphInfoDefault),
                    ret |-> Some(GlyphInfoDefault)]
              ELSE LET glyph_id == Face_glyph_id(fi.ab_glyph_font, c)
                   IN  IF unsupported(glyph_id)
                       THEN [w |-> w1, ret |-> None]
                       ELSE LET al == allocate_glyph(w1, p, c, glyph_id)
                            IN  [w |-> CacheInsert(al.w, p, c, al.ret),
                                 ret |-> Some(al.ret)]

(***************************************************************************)
(* Font, the aggregator.  fonts is the list of providers; a FontIndex is   *)
(* 0-based as in the code, so provider i of the list is fonts[i + 1].      *)
(* Operators return the world, the aggregator and the value returned.      *)
(***************************************************************************)
CacheInsertOneBased(f, c, font_index, glyph_info) ==
    [f EXCEPT !.glyph_info_cache = Insert(@, c, <<font_index + 1, glyph_info>>)]

\* self.glyph_info_cache.insert(c, (font_index, glyph_info))
FontCacheInsert(f, c, font_index, glyph_info) ==
    [f EXCEPT !.glyph_info_cache = Insert(@, c, <<font_index, glyph_info>>)]

\* for (font_index, font_impl) in self.fonts.iter().enumerate(): NoCacheFrom
\* asks provider font_index, NoCacheTry is the body of the loop on its answer r.
RECURSIVE NoCacheFrom(_, _, _, _)
RECURSIVE NoCacheTry(_, _, _, _)
NoCacheTry(r, f, c, font_index) ==
    IF r.ret.some
    THEN [w |-> r.w,
          f |-> FontCacheInsert(f, c, font_index, r.ret.val),
          ret |-> Some(<<font_index, r.ret.val>>)]
    ELSE NoCacheFrom(r.w, f, c, font_index + 1)

NoCacheFrom(w, f, c, font_index) ==
    IF font_index >= Len(f.fonts)
    THEN [w |-> w, f |-> f, ret |-> None]
    ELSE NoCacheTry(FontImpl_glyph_info(w, f.fonts[font_index + 1], c),
                    f, c, font_index)

\* The search starts at the second provider once it has answered before.
StartFromLastAnswer(w, f, c) ==
    NoCacheFrom(w, f, c,
                IF \E k \in DOMAIN f.glyph_info_cache : f.glyph_info_cache[k][1] = 1
                THEN 1 ELSE 0)

SkipFirstProvider(w, f, c) == NoCacheFrom(w, f, c, 1)

Font_glyph_info_no_cache_or_fallback(w, f, c) == NoCacheFrom(w, f, c, 0)

ReplacementNotStored(f, c, pair) == f

\* self.glyph_info_cache.insert(c, font_index_glyph_info) of Font::glyph_info
FontCacheStore(f, c, pair) ==
    [f EXCEPT !.glyph_info_cache = Insert(@, c, pair)]

ReplacementFollowsLast(r, c, replacement_glyph) ==
    LET font_index_glyph_info ==
            IF r.ret.some THEN r.ret.val ELSE replacement_glyph
    IN  [w |-> r.w,
         f |-> [r.f EXCEPT !.glyph_info_cache = Insert(@, c, font_index_glyph_info),
                           !.replacement_glyph = font_index_glyph_info],
         ret |-> font_index_glyph_info]

\* .unwrap_or(self.replacement_glyph), the insert and the return of
\* Font::glyph_info, on the answer r of glyph_info_no_cache_or_fallback.
unwrap_or_replacement(r, c, replacement_glyph) ==
    LET font_index_glyph_info ==
            IF r.ret.some THEN r.ret.val ELSE replacement_glyph
    IN  [w |-> r.w,
         f |-> FontCacheStore(r.f, c, font_index_glyph_info),
         ret |-> font_index_glyph_info]

Font_glyph_info(w, f, c) ==
    IF c \in DOMAIN f.glyph_info_cache
    THEN [w |-> w, f |-> f, ret |-> f.glyph_info_cache[c]]
    ELSE unwrap_or_replacement(Font_glyph_info_no_cache_or_fallback(w, f, c),
                               c, f.replacement_glyph)

\* first.or_else(|| slf.glyph_info_no_cache_or_fallback(c))
or_else(first, c) ==
    IF first.ret.some
    THEN first
    ELSE Font_glyph_info_no_cache_or_fallback(first.w, first.f, c)

ProbeOnFreshProviders(w, slf) ==
    or_else(Font_glyph_info_no_cache_or_fallback(
                [w EXCEPT !.cache = [p \in DOMAIN w.cache |->
                     IF \E i \in DOMAIN slf.fonts : slf.fonts[i] = p
                     THEN EmptyMap ELSE w.cache[p]]],
                slf, PRIMARY_REPLACEMENT_CHAR),
            FALLBACK_REPLACEMENT_CHAR)

ProbeFallbackFirst(w, slf) ==
    or_else(Font_glyph_info_no_cache_or_fallback(w, slf, FALLBACK_REPLACEMENT_CHAR),
            PRIMARY_REPLACEMENT_CHAR)

\* slf.glyph_info_no_cache_or_fallback(PRIMARY_REPLACEMENT_CHAR)
\*    .or_else(|| slf.glyph_info_no_cache_or_fallback(FALLBACK_REPLACEMENT_CHAR))
ReplacementProbe(w, slf) ==
    or_else(Font_glyph_info_no_cache_or_fallback(w, slf, PRIMARY_REPLACEMENT_CHAR),
            FALLBACK_REPLACEMENT_CHAR)

\* .unwrap_or_else(|| (0, GlyphInfo::default())); slf.replacement_glyph = ...
unwrap_or_default(probe) ==
    [w |-> probe.w,
     f |-> [probe.f EXCEPT !.replacement_glyph =
                IF probe.ret.some THEN probe.ret.val ELSE <<0, GlyphInfoDefault>>]]

Font_new(w, fonts) ==
    IF fonts = <<>>
    THEN [w |-> w,
          f |-> [constructed |-> TRUE,
                 fonts |-> fonts,
                 characters |-> None,
                 replacement_glyph |-> <<0, GlyphInfoDefault>>,
                 pixels_per_point |-> 1,
                 row_height |-> 0,
                 glyph_info_cache |-> EmptyMap]]
    ELSE LET slf == [constructed |-> TRUE,
                     fonts |-> fonts,
                     characters |-> None,
                     replacement_glyph |-> <<0, GlyphInfoDefault>>,
                     pixels_per_point |-> FontImpl_pixels_per_point(font_impls[fonts[1]]),
                     row_height |-> FontImpl_row_height(font_impls[fonts[1]]),
                     glyph_info_cache |-> EmptyMap]
         IN  unwrap_or_default(ReplacementProbe(w, slf))

UvRectFromProvider(f, c) ==
    IF c \in DOMAIN f.glyph_info_cache
    THEN f.glyph_info_cache[c][2].uv_rect
    ELSE IF f.fonts # <<>> /\ c \in DOMAIN glyph_info_cache[f.fonts[1]]
    THEN glyph_info_cache[f.fonts[1]][c].uv_rect
    ELSE UvRectDefault

Font_uv_rect(f, c) ==
    IF c \in DOMAIN f.glyph_info_cache
    THEN f.glyph_info_cache[c][2].uv_rect
    ELSE UvRectDefault

Font_glyph_width(w, f, c) ==
    [Font_glyph_info(w, f, c) EXCEPT !.ret = @[2].advance_width]

IndexDiffers(pair, replacement_glyph) == pair[1] # replacement_glyph[1]

EqualsReplacement(pair, replacement_glyph) == pair = replacement_glyph

\* self.glyph_info(c) != self.replacement_glyph
DiffersFromReplacement(pair, replacement_glyph) == pair # replacement_glyph

\* glyph_info leaves self.replacement_glyph as it is.
Font_has_glyph(w, f, c) ==
    [Font_glyph_info(w, f, c) EXCEPT
        !.ret = DiffersFromReplacement(@, f.replacement_glyph)]

EmptyListIndexes(f) == FALSE

\* self.fonts.is_empty() of font_impl_and_glyph_info
FontsIsEmpty(f) == f.fonts = <<>>

\* The value is (provider, glyph); indexing fonts out of bounds panics.
Font_font_impl_and_glyph_info(w, f, c) ==
    IF FontsIsEmpty(f)
    THEN [w |-> w, f |-> f,
          ret |-> [panic |-> FALSE, font_impl |-> None,
                   glyph_info |-> f.replacement_glyph[2]]]
    ELSE [Font_glyph_info(w, f, c) EXCEPT
             !.ret = IF @[1] < Len(f.fonts)
                     THEN [panic |-> FALSE,
                           font_impl |-> Some(f.fonts[@[1] + 1]),
                           glyph_info |-> @[2]]
                     ELSE [panic |-> TRUE]]

Font_row_height(f) == f.row_height

Font_ascent(f) ==
    IF f.fonts # <<>> THEN FontImpl_ascent(font_impls[f.fonts[1]]) ELSE f.row_height

\* The names, in list order, of the providers whose enumeration has chr.
NamesOf(fonts, chr) ==
    LET has(i) == chr \in FontImpl_characters(font_impls[fonts[i]])
        idx == SelectSeq([i \in 1 .. Len(fonts) |-> i], has)
    IN  [k \in 1 .. Len(idx) |-> font_impls[fonts[idx[k]]].name]

RECURSIVE ScanFonts(_, _, _)
ScanFonts(w, fonts, i) ==
    IF i > Len(fonts)
    THEN w
    ELSE ScanFonts(Log(w, [ev |-> "characters", font |-> fonts[i], chr |-> 0]),
                   fonts, i + 1)

CharactersRescanned(w, f) ==
    LET all == UNION {FontImpl_characters(font_impls[f.fonts[i]]) :
                         i \in 1 .. Len(f.fonts)}
        characters == [chr \in all |-> NamesOf(f.fonts, chr)]
    IN  [w |-> ScanFonts(w, f.fonts, 1),
         f |-> [f EXCEPT !.characters = Some(characters)],
         ret |-> characters]

\* self.characters.get_or_insert_with(|| ...)
Font_characters(w, f) ==
    IF f.characters.some
    THEN [w |-> w, f |-> f, ret |-> f.characters.val]
    ELSE LET all == UNION {FontImpl_characters(font_impls[f.fonts[i]]) :
                              i \in 1 .. Len(f.fonts)}
             characters == [chr \in all |-> NamesOf(f.fonts, chr)]
         IN  [w |-> ScanFonts(w, f.fonts, 1),
              f |-> [f EXCEPT !.characters = Some(characters)],
              ret |-> characters]

\* for c in s.chars() { self.glyph_info(c); }, over s[lo .. hi], split in
\* halves: the characters are resolved left to right, the left half before
\* the right half is entered.
RECURSIVE PreloadFrom(_, _, _, _, _)
PreloadFrom(w, f, s, lo, hi) ==
    IF lo > hi
    THEN [w |-> w, f |-> f, ret |-> <<>>]
    ELSE IF lo = hi
    THEN Font_glyph_info(w, f, s[lo])
    ELSE LET mid == (lo + hi) \div 2
             left == PreloadFrom(w, f, s, lo, mid)
         IN  IF s[mid] \in DOMAIN left.f.glyph_info_cache
             THEN PreloadFrom(left.w, left.f, s, mid + 1, hi)
             ELSE left

PreloadFirstOnly(w, f, s) == PreloadFrom(w, f, s, 1, 1)

Font_preload_characters(w, f, s) == PreloadFrom(w, f, s, 1, Len(s))

FIRST_ASCII == 32
LAST_ASCII == 126
DEGREE_SIGN == 176
PASSWORD_REPLACEMENT_CHAR == 8226

CommonCharacters ==
    [i \in 1 .. (LAST_ASCII - FIRST_ASCII + 1) |-> FIRST_ASCII + i - 1]
        \o <<DEGREE_SIGN, PASSWORD_REPLACEMENT_CHAR>>

Font_preload_common_characters(w, f) ==
    PreloadFrom(w, f, CommonCharacters, 1, Len(CommonCharacters))

\* s.chars().all(|c| self.has_glyph(c)) stops at the first character without glyph.
\* HasGlyphsFrom asks has_glyph for s[i]; HasGlyphsNext goes on after its
\* answer r.
RECURSIVE HasGlyphsFrom(_, _, _, _)
RECURSIVE HasGlyphsNext(_, _, _)
HasGlyphsNext(r, s, i) ==
    IF r.ret
    THEN HasGlyphsFrom(r.w, r.f, s, i + 1)
    ELSE [w |-> r.w, f |-> r.f, ret |-> FALSE]

HasGlyphsFrom(w, f, s, i) ==
    IF i > Len(s)
    THEN [w |-> w, f |-> f, ret |-> TRUE]
    ELSE HasGlyphsNext(Font_has_glyph(w, f, s[i]), s, i)

Font_has_glyphs(w, f, s) == HasGlyphsFrom(w, f, s, 1)

(***************************************************************************)
(* The state machine: callers construct aggregators over the providers and *)
(* call their operations, one call at a time.                              *)
(***************************************************************************)
MaxCalls == 3

FontLists == {<<>>, <<1>>, <<2>>, <<1, 2>>, <<2, 1>>}

PreloadStrings == {<<LETTER_A, TAB, LETTER_A>>}

HasGlyphsStrings == {<<QUESTION, SWASTIKA, LETTER_A>>}

Init ==
    /\ font_impls \in FontImplSetups
    /\ glyph_info_cache = [p \in Providers |-> EmptyMap]
    /\ atlas \in InitialAtlases
    /\ font = [a \in FontSlots |-> NoFont]
    /\ ret = [op |-> "init", font |-> 0, arg |-> <<>>, val |-> <<>>,
              trace |-> <<>>, calls |-> 0]
    /\ pre = [glyph_info_cache |-> glyph_info_cache, atlas |-> atlas, font |-> font]
    /\ NoThreads

\* The effect of a call on aggregator a: r is what the operation returned.
Returned(a, r, op, arg, val) ==
    /\ glyph_info_cache' = r.w.cache
    /\ atlas' = r.w.atlas
    /\ font' = [font EXCEPT ![a] = r.f]
    /\ ret' = [op |-> op, font |-> a, arg |-> arg, val |-> val,
               trace |-> r.w.trace, calls |-> ret.calls + 1]
    /\ pre' = [glyph_info_cache |-> glyph_info_cache, atlas |-> atlas, font |-> font]
    /\ UNCHANGED <<font_impls, thread_vars>>

\* A call whose return value is the ret of r.
ReturnedValue(a, r, op, arg) == Returned(a, r, op, arg, r.ret)

Ready(a) == font[a].constructed /\ ret.calls < MaxCalls

FontNew(a, fonts) ==
    /\ ~font[a].constructed
    /\ Returned(a, Font_new(World, fonts), "new", fonts, fonts)
    /\ ret.calls < MaxCalls

PreloadCharacters(a, s) ==
    /\ Ready(a)
    /\ Returned(a, Font_preload_characters(World, font[a], s),
                "preload_characters", s, <<>>)

PreloadCommonCharacters(a) ==
    /\ Ready(a)
    /\ Returned(a, Font_preload_common_characters(World, font[a]),
                "preload_common_characters", <<>>, <<>>)

Characters(a) ==
    /\ Ready(a)
    /\ ReturnedValue(a, Font_characters(World, font[a]),
                     "characters", <<>>)

RowHeight(a) ==
    /\ Ready(a)
    /\ Returned(a, [w |-> World, f |-> font[a]], "row_height", <<>>,
                Font_row_height(font[a]))

UvRect(a, c) ==
    /\ Ready(a)
    /\ Returned(a, [w |-> World, f |-> font[a]], "uv_rect", c,
                Font_uv_rect(font[a], c))

GlyphWidth(a, c) ==
    /\ Ready(a)
    /\ ReturnedValue(a, Font_glyph_width(World, font[a], c),
                     "glyph_width", c)

HasGlyph(a, c) ==
    /\ Ready(a)
    /\ ReturnedValue(a, Font_has_glyph(World, font[a], c),
                     "has_glyph", c)

HasGlyphs(a, s) ==
    /\ Ready(a)
    /\ ReturnedValue(a, Font_has_glyphs(World, font[a], s),
                     "has_glyphs", s)

FontImplAndGlyphInfo(a, c) ==
    /\ Ready(a)
    /\ ReturnedValue(a, Font_font_impl_and_glyph_info(World, font[a], c),
                     "font_impl_and_glyph_info", c)

\* The pixels_per_point and scale_in_pixels FontImpl::new is called with.
PixelsPerPointArgs == {-1, 0, 2}

ScaleInPixelsArgs == {-16, 0, 16}

\* A caller constructs one more provider over the shared atlas; the provider
\* is handed to no aggregator.
FontImplNew(pixels_per_point, scale_in_pixels) ==
    /\ ret.calls < MaxCalls
    /\ ret' = [op |-> "FontImpl::new", font |-> 0,
               arg |-> <<pixels_per_point, scale_in_pixels>>,
               val |-> FontImpl_new(pixels_per_point, "my_new", FaceBare,
                                    scale_in_pixels),
               trace |-> <<>>, calls |-> ret.calls + 1]
    /\ pre' = [glyph_info_cache |-> glyph_info_cache, atlas |-> atlas, font |-> font]
    /\ UNCHANGED <<font_impls, glyph_info_cache, atlas, font, thread_vars>>

Ascent(a) ==
    /\ Ready(a)
    /\ Returned(a, [w |-> World, f |-> font[a]], "ascent", <<>>,
                Font_ascent(font[a]))

Next ==
    \/ \E a \in FontSlots, fonts \in FontLists : FontNew(a, fonts)
    \/ \E a \in FontSlots, s \in PreloadStrings : PreloadCharacters(a, s)
    \/ \E a \in FontSlots : PreloadCommonCharacters(a)
    \/ \E a \in FontSlots : Characters(a)
    \/ \E a \in FontSlots : RowHeight(a)
    \/ \E a \in FontSlots, c \in Chars : UvRect(a, c)
    \/ \E a \in FontSlots, c \in Chars : GlyphWidth(a, c)
    \/ \E a \in FontSlots, c \in Chars : HasGlyph(a, c)
    \/ \E a \in FontSlots, s \in HasGlyphsStrings : HasGlyphs(a, s)
    \/ \E a \in FontSlots, c \in Chars : FontImplAndGlyphInfo(a, c)
    \/ \E a \in FontSlots : Ascent(a)
    \/ \E pixels_per_point \in PixelsPerPointArgs,
          scale_in_pixels \in ScaleInPixelsArgs :
              FontImplNew(pixels_per_point, scale_in_pixels)

Spec == Init /\ [][Next]_vars

(***************************************************************************)
(* Providers called from several threads.  A provider is shared (Arc) and  *)
(* FontImpl::glyph_info takes &self, so threads may run it at once, on the *)
(* same provider or on different ones; the atlas is behind a Mutex and     *)
(* each provider cache behind an RwLock.  Each thread runs glyph_info step *)
(* by step, every step touching shared state at most once:                 *)
(*   read_lock       self.glyph_info_cache.read()                          *)
(*   read            .get(&c), the guard dropped at the end of the block   *)
(*   rules           ignore list, tab, thin space, invisible, glyph id,    *)
(*                   outline and bounding box (local computation)          *)
(*   space_returned  back from the recursive self.glyph_info(' ')          *)
(*   atlas_lock      self.atlas.lock()                                     *)
(*   allocate        atlas.allocate((glyph_width, glyph_height))           *)
(*   draw            glyph.draw(...), PixelWrites writes to the image      *)
(*   atlas_unlock    the end of the block, the guard is dropped            *)
(*   write_lock      self.glyph_info_cache.write()                         *)
(*   insert          .insert(c, glyph_info), the guard dropped             *)
(***************************************************************************)
MaxThreadCalls == 1

ThreadChars == {LETTER_A, TAB}

\* glyph.draw writes the pixels of a glyph one after the other.
PixelWrites == 2

Frame(c) ==
    [c |-> c, pc |-> "read_lock", space |-> None,
     glyph_id |-> 0, glyph_info |-> GlyphInfoDefault, drawn |-> 0]

Top(t) == th[t].stack[Len(th[t].stack)]

Pc(t) == IF th[t].stack = <<>> THEN "idle" ELSE Top(t).pc

\* The threads after thread t replaced its top frame.
SetTop(t, frame) == [th EXCEPT ![t].stack[Len(th[t].stack)] = frame]

\* The threads after the glyph_info thread t is in returned v: to the frame
\* that called it for space, or to the caller of the thread.
Return(t, v) ==
    LET stack == th[t].stack
        n == Len(stack)
    IN  IF n = 1
        THEN [th EXCEPT ![t].stack = <<>>,
                        ![t].results = Append(@, [p |-> th[t].p, c |-> stack[1].c,
                                                  val |-> v])]
        ELSE [th EXCEPT ![t].stack =
                 Append(SubSeq(stack, 1, n - 2),
                        [stack[n - 1] EXCEPT !.space = v, !.pc = "space_returned"])]

UnlockBeforeDraw(pc) ==
    CASE pc = "atlas_lock" -> "allocate"
      [] pc = "allocate" -> "atlas_unlock"
      [] pc = "atlas_unlock" -> "draw"
      [] pc = "draw" -> "write_lock"

\* The order of the statements of allocate_glyph from the lock of the atlas
\* to the insert into the cache: what follows pc.
allocate_glyph_order(pc) ==
    CASE pc = "atlas_lock" -> "allocate"
      [] pc = "allocate" -> "draw"
      [] pc = "draw" -> "atlas_unlock"
      [] pc = "atlas_unlock" -> "write_lock"

\* The rules of glyph_info after tab and thin space: invisible characters,
\* glyph id 0, and allocate_glyph up to the lock of the atlas.
RulesAfterSpace(t) ==
    LET p == th[t].p
        fi == font_impls[p]
        c == Top(t).c
        glyph_id == Face_glyph_id(fi.ab_glyph_font, c)
    IN  IF invisible_char(c)
        THEN SetTop(t, [Top(t) EXCEPT !.glyph_info = GlyphInfoDefault,
                                      !.pc = "write_lock"])
        ELSE IF glyph_id = 0
        THEN Return(t, None)
        ELSE LET bb == fi.ab_glyph_font.glyphs[glyph_id].bb
             IN  IF bb = NoOutline \/ bb[3] = 0 \/ bb[4] = 0
                 THEN SetTop(t, [Top(t) EXCEPT
                                    !.glyph_info = allocate_glyph(World, p, c, glyph_id).ret,
                                    !.pc = "write_lock"])
                 ELSE SetTop(t, [Top(t) EXCEPT !.glyph_id = glyph_id,
                                               !.pc = "atlas_lock"])

\* A caller on thread t calls glyph_info(c) of provider p.
Call(t, p, c) ==
    /\ th[t].stack = <<>>
    /\ Len(th[t].results) < MaxThreadCalls
    /\ th' = [th EXCEPT ![t].p = p, ![t].stack = <<Frame(c)>>]
    /\ UNCHANGED <<font_impls, glyph_info_cache, atlas, font, ret, pre,
                   atlas_lock, cache_lock, atlas_log>>

\* self.glyph_info_cache.read(): waits while a writer holds the lock.
ReadLock(t) ==
    /\ Pc(t) = "read_lock"
    /\ cache_lock[th[t].p].writer = 0
    /\ cache_lock' = [cache_lock EXCEPT ![th[t].p].readers = @ \cup {t}]
    /\ th' = SetTop(t, [Top(t) EXCEPT !.pc = "read"])
    /\ UNCHANGED <<font_impls, glyph_info_cache, atlas, font, ret, pre,
                   atlas_lock, atlas_log>>

\* if let Some(glyph_info) = ....get(&c) { return Some(*glyph_info); }
ReadCache(t) ==
    /\ Pc(t) = "read"
    /\ cache_lock' = [cache_lock EXCEPT ![th[t].p].readers = @ \ {t}]
    /\ th' = IF Top(t).c \in DOMAIN glyph_info_cache[th[t].p]
             THEN Return(t, Some(glyph_info_cache[th[t].p][Top(t).c]))
             ELSE SetTop(t, [Top(t) EXCEPT !.pc = "rules"])
    /\ UNCHANGED <<font_impls, glyph_info_cache, atlas, font, ret, pre,
                   atlas_lock, atlas_log>>

\* The ignore list, then tab and thin space, which call glyph_info(' ').
ApplyRules(t) ==
    /\ Pc(t) = "rules"
    /\ th' = IF ignore_character(font_impls[th[t].p], Top(t).c)
             THEN Return(t, None)
             ELSE IF Top(t).c = TAB \/ Top(t).c = THIN_SPACE
             THEN [th EXCEPT ![t].stack =
                      Append(SubSeq(@, 1, Len(@) - 1),
                             [Top(t) EXCEPT !.pc = "call_space"])
                          \o <<Frame(SPACE)>>]
             ELSE RulesAfterSpace(t)
    /\ UNCHANGED <<font_impls, glyph_info_cache, atlas, font, ret, pre,
                   atlas_lock, cache_lock, atlas_log>>

\* if let Some(space) = self.glyph_info(' ') { ... }, else the other rules.
SpaceReturned(t) ==
    /\ Pc(t) = "space_returned"
    /\ th' = IF Top(t).space.some
             THEN SetTop(t, [Top(t) EXCEPT
                      !.glyph_info =
                          IF Top(t).c = TAB
                          THEN tab_glyph_info(Top(t).space.val)
                          ELSE thin_space_glyph_info(font_impls[th[t].p],
                                                     Top(t).space.val),
                      !.pc = "write_lock"])
             ELSE RulesAfterSpace(t)
    /\ UNCHANGED <<font_impls, glyph_info_cache, atlas, font, ret, pre,
                   atlas_lock, cache_lock, atlas_log>>

\* let atlas = &mut self.atlas.lock(): waits while another thread holds it.
LockAtlas(t) ==
    /\ Pc(t) = "atlas_lock"
    /\ atlas_lock = 0
    /\ atlas_lock' = t
    /\ th' = SetTop(t, [Top(t) EXCEPT !.pc = allocate_glyph_order("atlas_lock")])
    /\ UNCHANGED <<font_impls, glyph_info_cache, atlas, font, ret, pre,
                   cache_lock, atlas_log>>

\* let (glyph_pos, image) = atlas.allocate((glyph_width, glyph_height));
\* the GlyphInfo the call will return follows from glyph_pos.
AtlasAllocate(t) ==
    /\ Pc(t) = "allocate"
    /\ LET al == allocate_glyph(World, th[t].p, Top(t).c, Top(t).glyph_id)
       IN  /\ atlas' = al.w.atlas
           /\ th' = SetTop(t, [Top(t) EXCEPT
                      !.glyph_info = al.ret,
                      !.pc = allocate_glyph_order("allocate")])
    /\ atlas_log' = Append(atlas_log, [ev |-> "allocate", thread |-> t])
    /\ UNCHANGED <<font_impls, glyph_info_cache, font, ret, pre,
                   atlas_lock, cache_lock>>

\* image[(px, py)] = ..., one pixel of the glyph.
DrawPixel(t) ==
    /\ Pc(t) = "draw"
    /\ atlas_log' = Append(atlas_log, [ev |-> "write", thread |-> t])
    /\ th' = SetTop(t, [Top(t) EXCEPT
               !.drawn = @ + 1,
               !.pc = IF Top(t).drawn + 1 = PixelWrites
                      THEN allocate_glyph_order("draw")
                      ELSE "draw"])
    /\ UNCHANGED <<font_impls, glyph_info_cache, atlas, font, ret, pre,
                   atlas_lock, cache_lock>>

\* The block of the atlas guard ends.
UnlockAtlas(t) ==
    /\ Pc(t) = "atlas_unlock"
    /\ atlas_lock' = IF atlas_lock = t THEN 0 ELSE atlas_lock
    /\ th' = SetTop(t, [Top(t) EXCEPT !.pc = allocate_glyph_order("atlas_unlock")])
    /\ UNCHANGED <<font_impls, glyph_info_cache, atlas, font, ret, pre,
                   cache_lock, atlas_log>>

\* self.glyph_info_cache.write(): waits while anyone holds the lock.
WriteLock(t) ==
    /\ Pc(t) = "write_lock"
    /\ cache_lock[th[t].p].writer = 0
    /\ cache_lock[th[t].p].readers = {}
    /\ cache_lock' = [cache_lock EXCEPT ![th[t].p].writer = t]
    /\ th' = SetTop(t, [Top(t) EXCEPT !.pc = "insert"])
    /\ UNCHANGED <<font_impls, glyph_info_cache, atlas, font, ret, pre,
                   atlas_lock, atlas_log>>

\* .insert(c, glyph_info); return Some(glyph_info)
WriteCache(t) ==
    /\ Pc(t) = "insert"
    /\ glyph_info_cache' =
           [glyph_info_cache EXCEPT
               ![th[t].p] = Insert(@, Top(t).c, Top(t).glyph_info)]
    /\ cache_lock' = [cache_lock EXCEPT ![th[t].p].writer = 0]
    /\ th' = Return(t, Some(Top(t).glyph_info))
    /\ UNCHANGED <<font_impls, atlas, font, ret, pre, atlas_lock, atlas_log>>

ThreadStep(t) ==
    \/ ReadLock(t)
    \/ ReadCache(t)
    \/ ApplyRules(t)
    \/ SpaceReturned(t)
    \/ LockAtlas(t)
    \/ AtlasAllocate(t)
    \/ DrawPixel(t)
    \/ UnlockAtlas(t)
    \/ WriteLock(t)
    \/ WriteCache(t)

NextThreads ==
    \/ \E t \in Threads, p \in Providers, c \in ThreadChars : Call(t, p, c)
    \/ \E t \in Threads : ThreadStep(t)

SpecThreads == Init /\ [][NextThreads]_vars

(***************************************************************************)
(* Vocabulary of the properties.                                           *)
(***************************************************************************)
\* The calls that resolve one character through Font::glyph_info.
ResolveOps == {"glyph_width", "has_glyph", "font_impl_and_glyph_info"}

IsEv(e, kind, p, c) == e.ev = kind /\ e.font = p /\ e.chr = c

\* What provider p answers for c in world w, and whether it has a glyph.
Answer(w, p, c) == FontImpl_glyph_info(w, p, c).ret

Supplies(w, p, c) == Answer(w, p, c).some

\* The 0-based indexes of the providers of list fonts that supply c.
Suppliers(w, fonts, c) ==
    {i \in 0 .. Len(fonts) - 1 : Supplies(w, fonts[i + 1], c)}

Least(S) == CHOOSE i \in S : \A j \in S : i <= j

\* The providers the last call asked for c, in the order asked.
QueriedFor(c) ==
    LET asks == SelectSeq(ret.trace, LAMBDA e : e.ev = "glyph_info" /\ e.chr = c)
    IN  [k \in 1 .. Len(asks) |-> asks[k].font]

\* The last call reached Font::glyph_info(c) on aggregator a, which had not
\* cached c (font_impl_and_glyph_info returns before it on an empty list).
MissOn(a, c) ==
    /\ ret.op \in ResolveOps
    /\ ret.font = a
    /\ ret.arg = c
    /\ c \notin DOMAIN pre.font[a].glyph_info_cache
    /\ ~(ret.op = "font_impl_and_glyph_info" /\ pre.font[a].fonts = <<>>)

\* Provider p had c cached when event i of the last call happened.
CachedBefore(i, p, c) ==
    \/ c \in DOMAIN pre.glyph_info_cache[p]
    \/ \E j \in 1 .. (i - 1) : IsEv(ret.trace[j], "insert", p, c)

(***************************************************************************)
(* C1.  For one provider and one character, the atlas allocates at most    *)
(* once: the atlas holds at most one region per (provider, character), a   *)
(* request for a character the provider has cached is answered by a cache  *)
(* hit, and no rasterization, lock or allocation happens for a character   *)
(* that is cached.                                                         *)
(***************************************************************************)
C1_AllocateAtMostOnce ==
    /\ \A i, j \in DOMAIN atlas.regions :
           (/\ atlas.regions[i].font = atlas.regions[j].font
            /\ atlas.regions[i].chr = atlas.regions[j].chr) => i = j
    /\ \A i \in DOMAIN ret.trace :
           LET e == ret.trace[i]
           IN  /\ (e.ev = "glyph_info" /\ CachedBefore(i, e.font, e.chr))
                      => /\ i < Len(ret.trace)
                         /\ IsEv(ret.trace[i + 1], "hit", e.font, e.chr)
               /\ e.ev \in {"allocate_glyph", "lock", "allocate", "draw"}
                      => ~CachedBefore(i, e.font, e.chr)

\* A provider is asked again for a character it allocated a region for, and
\* answers from its cache.
C1_Witness ==
    \E i \in DOMAIN ret.trace :
        /\ ret.trace[i].ev = "hit"
        /\ \E k \in DOMAIN atlas.regions :
               /\ atlas.regions[k].font = ret.trace[i].font
               /\ atlas.regions[k].chr = ret.trace[i].chr
        /\ \A j \in DOMAIN ret.trace : ret.trace[j].ev # "allocate"

(***************************************************************************)
(* C2.  Resolution is idempotent and stable, at a provider and at an       *)
(* aggregator: resolving a character again returns what the first          *)
(* resolution returned (advance width, UV rect, glyph id, provider index), *)
(* also after other calls, for "no glyph" at a provider and for the        *)
(* replacement glyph at an aggregator.                                     *)
(***************************************************************************)
C2_ResolutionIdempotent ==
    /\ \A p \in Providers, c \in AllChars :
           LET first == FontImpl_glyph_info(World, p, c)
               second == FontImpl_glyph_info(first.w, p, c)
           IN  /\ second.ret = first.ret
               /\ c \in DOMAIN pre.glyph_info_cache[p]
                      => first.ret = Some(pre.glyph_info_cache[p][c])
               /\ ~Supplies(PreWorld, p, c) /\ c \notin DOMAIN glyph_info_cache[p]
                      => ~first.ret.some
    /\ \A a \in FontSlots, c \in AllChars :
           font[a].constructed =>
               LET first == Font_glyph_info(World, font[a], c)
                   second == Font_glyph_info(first.w, first.f, c)
               IN  /\ second.ret = first.ret
                   /\ (/\ pre.font[a].constructed
                       /\ c \in DOMAIN pre.font[a].glyph_info_cache)
                          => first.ret = pre.font[a].glyph_info_cache[c]
    /\ ret.op = "glyph_width"
           => ret.val = Font_glyph_width(World, font[ret.font], ret.arg).ret
    /\ ret.op = "has_glyph"
           => ret.val = Font_has_glyph(World, font[ret.font], ret.arg).ret
    /\ ret.op = "font_impl_and_glyph_info"
           => ret.val = Font_font_impl_and_glyph_info(World, font[ret.font], ret.arg).ret

\* A character resolved earlier is resolved again, after another character
\* was resolved in between, and the width is the one cached the first time.
C2_Witness ==
    /\ ret.op = "glyph_width"
    /\ ret.calls = 3
    /\ pre.font[ret.font].constructed
    /\ ret.arg \in DOMAIN pre.font[ret.font].glyph_info_cache
    /\ ret.val = pre.font[ret.font].glyph_info_cache[ret.arg][2].advance_width
    /\ ret.val > 0
    /\ Cardinality(DOMAIN font[ret.font].glyph_info_cache) >= 2
    /\ font[3 - ret.font] = NoFont

(***************************************************************************)
(* C3.  Fallback order: on an aggregator cache miss for c, the providers   *)
(* are asked in list order up to the first one, i, that has a glyph g for  *)
(* c, no provider after i is asked, the call returns (i, g) and exactly    *)
(* (i, g) is stored in the aggregator cache under c.                       *)
(***************************************************************************)
C3_FallbackOrder ==
    \A a \in FontSlots, c \in Chars :
        (MissOn(a, c) /\ Suppliers(PreWorld, pre.font[a].fonts, c) # {}) =>
            LET fonts == pre.font[a].fonts
                i == Least(Suppliers(PreWorld, fonts, c))
                g == Answer(PreWorld, fonts[i + 1], c).val
            IN  /\ QueriedFor(c) = SubSeq(fonts, 1, i + 1)
                /\ c \in DOMAIN font[a].glyph_info_cache
                /\ font[a].glyph_info_cache[c] = <<i, g>>
                /\ ret.op = "glyph_width" => ret.val = g.advance_width
                /\ ret.op = "font_impl_and_glyph_info"
                       => ret.val = [panic |-> FALSE,
                                     font_impl |-> Some(fonts[i + 1]),
                                     glyph_info |-> g]

\* Providers [A, B], only B has the character: the call returns B's glyph
\* with index 1, after asking A and then B.
C3_Witness ==
    /\ ret.op = "font_impl_and_glyph_info"
    /\ MissOn(ret.font, ret.arg)
    /\ Len(font[ret.font].fonts) = 2
    /\ Suppliers(PreWorld, font[ret.font].fonts, ret.arg) = {1}
    /\ font[ret.font].glyph_info_cache[ret.arg][1] = 1
    /\ ret.val.font_impl = Some(font[ret.font].fonts[2])
    /\ QueriedFor(ret.arg) = font[ret.font].fonts

(***************************************************************************)
(* C4.  When no provider of the list has a glyph for c, resolving c        *)
(* returns the replacement pair fixed at construction and stores exactly   *)
(* that pair under c; font_impl_and_glyph_info never indexes the provider  *)
(* list out of bounds.                                                     *)
(***************************************************************************)
C4_ReplacementOnMiss ==
    /\ ret.op = "font_impl_and_glyph_info" => ~ret.val.panic
    /\ \A a \in FontSlots, c \in Chars :
           (MissOn(a, c) /\ Suppliers(PreWorld, pre.font[a].fonts, c) = {}) =>
               LET replacement == pre.font[a].replacement_glyph
               IN  /\ font[a].replacement_glyph = replacement
                   /\ c \in DOMAIN font[a].glyph_info_cache
                   /\ font[a].glyph_info_cache[c] = replacement
                   /\ ret.op = "glyph_width" => ret.val = replacement[2].advance_width
                   /\ ret.op = "has_glyph" => ret.val = FALSE
                   /\ ret.op = "font_impl_and_glyph_info"
                          => ret.val = [panic |-> FALSE,
                                        font_impl |->
                                            Some(pre.font[a].fonts[replacement[1] + 1]),
                                        glyph_info |-> replacement[2]]

\* Two providers, neither has the character, and the replacement is a glyph
\* of the second: the call returns it and it is cached under the character.
C4_Witness ==
    /\ ret.op = "font_impl_and_glyph_info"
    /\ MissOn(ret.font, ret.arg)
    /\ Len(font[ret.font].fonts) = 2
    /\ Suppliers(PreWorld, font[ret.font].fonts, ret.arg) = {}
    /\ QueriedFor(ret.arg) = font[ret.font].fonts
    /\ font[ret.font].glyph_info_cache[ret.arg] = font[ret.font].replacement_glyph
    /\ ret.val.glyph_info.id # 0
    /\ ret.val.font_impl = Some(font[ret.font].fonts[2])

\* The replacement candidate that resolves over the list fonts (0: neither),
\* and the pair it resolves to.
ReplacementChar(w, fonts) ==
    IF Suppliers(w, fonts, PRIMARY_REPLACEMENT_CHAR) # {}
    THEN PRIMARY_REPLACEMENT_CHAR
    ELSE IF Suppliers(w, fonts, FALLBACK_REPLACEMENT_CHAR) # {}
    THEN FALLBACK_REPLACEMENT_CHAR
    ELSE 0

ExpectedReplacement(w, fonts) ==
    LET r == ReplacementChar(w, fonts)
    IN  IF r = 0
        THEN <<0, GlyphInfoDefault>>
        ELSE LET i == Least(Suppliers(w, fonts, r))
             IN  <<i, Answer(w, fonts[i + 1], r).val>>

(***************************************************************************)
(* C5.  Font::new over a non-empty list: the replacement pair is the       *)
(* fallback-chain resolution of the primary candidate if some provider has *)
(* it, else that of '?', else (0, default glyph); the primary candidate in *)
(* a later provider wins over '?' in an earlier one; the candidate that    *)
(* resolved is in the aggregator cache after construction.                 *)
(***************************************************************************)
C5_ReplacementSelection ==
    \A a \in FontSlots :
        (ret.op = "new" /\ ret.font = a /\ ret.arg # <<>>) =>
            LET expected == ExpectedReplacement(PreWorld, ret.arg)
                r == ReplacementChar(PreWorld, ret.arg)
            IN  /\ font[a].fonts = ret.arg
                /\ font[a].replacement_glyph = expected
                /\ r # 0 => /\ r \in DOMAIN font[a].glyph_info_cache
                            /\ font[a].glyph_info_cache[r] = expected

\* '?' is in the first provider, the primary candidate only in the second:
\* the replacement is the second provider's primary glyph.
C5_Witness ==
    /\ ret.op = "new"
    /\ Len(ret.arg) = 2
    /\ Suppliers(PreWorld, ret.arg, PRIMARY_REPLACEMENT_CHAR) = {1}
    /\ Suppliers(PreWorld, ret.arg, FALLBACK_REPLACEMENT_CHAR) = {0}
    /\ font[ret.font].replacement_glyph[1] = 1
    /\ font[ret.font].replacement_glyph[2].id # 0
    /\ PRIMARY_REPLACEMENT_CHAR \in DOMAIN font[ret.font].glyph_info_cache

\* has_glyph(c) answered "no" although a provider of the list has a glyph.
FalseNegative(a, c) ==
    /\ ret.op = "has_glyph"
    /\ ret.font = a
    /\ ret.arg = c
    /\ ret.val = FALSE
    /\ Suppliers(World, font[a].fonts, c) # {}

HasGlyphIsDifference ==
    ret.op = "has_glyph" =>
        ret.val = (font[ret.font].glyph_info_cache[ret.arg]
                       # font[ret.font].replacement_glyph)

(***************************************************************************)
(* C6 as claimed.  has_glyph(c) is true exactly when the pair c resolves   *)
(* to differs from the replacement pair, and it is a false negative only   *)
(* when c is the replacement character itself.                             *)
(***************************************************************************)
C6_FalseNegativeOnlyForReplacementChar ==
    /\ HasGlyphIsDifference
    /\ \A a \in FontSlots, c \in Chars :
           FalseNegative(a, c) => c = ReplacementChar(World, font[a].fonts)

(***************************************************************************)
(* C6 amended.  has_glyph(c) is true exactly when the pair c resolves to   *)
(* differs from the replacement pair, and it is a false negative only when *)
(* c is the replacement character itself or the glyph c resolves to has an *)
(* empty UV rect (an invisible character while the replacement is the      *)
(* empty default, a glyph without pixels shared with the replacement).     *)
(***************************************************************************)
C6_FalseNegativeOnlyForReplacementOrEmpty ==
    /\ HasGlyphIsDifference
    /\ \A a \in FontSlots, c \in Chars :
           FalseNegative(a, c) =>
               \/ c = ReplacementChar(World, font[a].fonts)
               \/ is_nothing(font[a].glyph_info_cache[c][2].uv_rect)
    /\ \A a \in FontSlots, c \in AllChars :
           font[a].constructed =>
               LET r == Font_has_glyph(World, font[a], c)
               IN  (~r.ret /\ Suppliers(World, font[a].fonts, c) # {}) =>
                       \/ c = ReplacementChar(World, font[a].fonts)
                       \/ is_nothing(r.f.glyph_info_cache[c][2].uv_rect)

\* has_glyph of the replacement character itself, a visible glyph, says no.
C6_Witness ==
    /\ FalseNegative(ret.font, ret.arg)
    /\ ret.arg = ReplacementChar(World, font[ret.font].fonts)
    /\ ~is_nothing(font[ret.font].glyph_info_cache[ret.arg][2].uv_rect)

\* No provider of the list has either replacement candidate.
NoCandidates(fonts) ==
    /\ fonts # <<>>
    /\ Suppliers(World, fonts, PRIMARY_REPLACEMENT_CHAR) = {}
    /\ Suppliers(World, fonts, FALLBACK_REPLACEMENT_CHAR) = {}

(***************************************************************************)
(* C7.  Over a non-empty list in which no provider has Y, the primary or   *)
(* the secondary candidate, has_glyph(Y) is false and uv_rect(Y) is the    *)
(* empty default, before and after Y is resolved.                          *)
(***************************************************************************)
C7_NoCandidates ==
    \A a \in FontSlots :
        (font[a].constructed /\ NoCandidates(font[a].fonts)) =>
            \A Y \in AllChars :
                Suppliers(World, font[a].fonts, Y) = {} =>
                    LET r == Font_has_glyph(World, font[a], Y)
                    IN  /\ Font_uv_rect(font[a], Y) = UvRectDefault
                        /\ is_nothing(Font_uv_rect(font[a], Y))
                        /\ r.ret = FALSE
                        /\ Y \in DOMAIN r.f.glyph_info_cache
                        /\ Font_uv_rect(r.f, Y) = UvRectDefault
                        /\ (ret.op = "has_glyph" /\ ret.font = a /\ ret.arg = Y)
                               => ret.val = FALSE
                        /\ (ret.op = "uv_rect" /\ ret.font = a /\ ret.arg = Y)
                               => ret.val = UvRectDefault

\* Two providers without candidates: uv_rect of a character neither has,
\* asked after has_glyph resolved it, is the empty default.
C7_Witness ==
    /\ ret.op = "uv_rect"
    /\ Len(font[ret.font].fonts) = 2
    /\ NoCandidates(font[ret.font].fonts)
    /\ Suppliers(World, font[ret.font].fonts, ret.arg) = {}
    /\ ret.arg \in DOMAIN font[ret.font].glyph_info_cache
    /\ ret.val = UvRectDefault

(***************************************************************************)
(* C8.  An aggregator over the empty list: glyph_width is 0, uv_rect the   *)
(* empty default, has_glyph false, font_impl_and_glyph_info (no provider,  *)
(* default glyph) without indexing the list, row_height 0 and characters() *)
(* the empty map, for every character, before and after any call.          *)
(***************************************************************************)
C8_EmptyList ==
    \A a \in FontSlots :
        (font[a].constructed /\ font[a].fonts = <<>>) =>
            /\ Font_row_height(font[a]) = 0
            /\ DOMAIN Font_characters(World, font[a]).ret = {}
            /\ \A c \in AllChars :
                   LET pair == Font_font_impl_and_glyph_info(World, font[a], c)
                   IN  /\ Font_glyph_width(World, font[a], c).ret = 0
                       /\ Font_uv_rect(font[a], c) = UvRectDefault
                       /\ Font_has_glyph(World, font[a], c).ret = FALSE
                       /\ pair.ret = [panic |-> FALSE, font_impl |-> None,
                                      glyph_info |-> GlyphInfoDefault]
                       /\ pair.w.trace = <<>>
            /\ ret.font = a =>
                   /\ ret.trace = <<>>
                   /\ ret.op = "glyph_width" => ret.val = 0
                   /\ ret.op = "uv_rect" => ret.val = UvRectDefault
                   /\ ret.op = "has_glyph" => ret.val = FALSE
                   /\ ret.op = "has_glyphs" => ret.val = FALSE
                   /\ ret.op = "row_height" => ret.val = 0
                   /\ ret.op = "characters" => DOMAIN ret.val = {}
                   /\ ret.op = "font_impl_and_glyph_info"
                          => ret.val = [panic |-> FALSE, font_impl |-> None,
                                        glyph_info |-> GlyphInfoDefault]

\* font_impl_and_glyph_info on the empty list, after the character was
\* resolved by an earlier call, returns no provider and the default glyph.
C8_Witness ==
    /\ ret.op = "font_impl_and_glyph_info"
    /\ font[ret.font].fonts = <<>>
    /\ ret.arg \in DOMAIN font[ret.font].glyph_info_cache
    /\ ret.val.font_impl = None

IgnoreList == {21325, 21328, 57599, 61437, 61695, 61952}

(***************************************************************************)
(* C9.  For a provider with a built-in typeface name, each character of    *)
(* the ignore list resolves to "no glyph" even when the typeface has a     *)
(* glyph for it, is never cached, never allocated and absent from the      *)
(* provider's enumeration; for any other name it resolves by the ordinary  *)
(* rules: a glyph exactly when the typeface's glyph id is not 0.           *)
(***************************************************************************)
C9_IgnoreListByName ==
    \A p \in Providers, c \in IgnoreList :
        LET fi == font_impls[p]
            id == Face_glyph_id(fi.ab_glyph_font, c)
            r == FontImpl_glyph_info(World, p, c)
        IN  IF fi.name \in BuiltinFontNames
            THEN /\ ~r.ret.some
                 /\ r.w.cache = glyph_info_cache
                 /\ r.w.atlas = atlas
                 /\ c \notin DOMAIN glyph_info_cache[p]
                 /\ \A k \in DOMAIN atlas.regions :
                        ~(atlas.regions[k].font = p /\ atlas.regions[k].chr = c)
                 /\ c \notin FontImpl_characters(fi)
                 /\ \A i \in DOMAIN ret.trace :
                        (ret.trace[i].font = p /\ ret.trace[i].chr = c)
                            => ret.trace[i].ev = "glyph_info"
            ELSE /\ r.ret.some <=> id # 0
                 /\ r.ret.some => r.ret.val.id = id
                 /\ c \in FontImpl_characters(fi) <=> id # 0

\* A built-in provider whose typeface has the glyph is asked and has "no
\* glyph"; the next provider, not built-in, supplies it.
C9_Witness ==
    /\ ret.op \in ResolveOps
    /\ ret.arg \in IgnoreList
    /\ Len(font[ret.font].fonts) = 2
    /\ QueriedFor(ret.arg) = font[ret.font].fonts
    /\ font_impls[font[ret.font].fonts[1]].name \in BuiltinFontNames
    /\ Face_glyph_id(font_impls[font[ret.font].fonts[1]].ab_glyph_font, ret.arg) # 0
    /\ font[ret.font].glyph_info_cache[ret.arg][1] = 1
    /\ font[ret.font].glyph_info_cache[ret.arg][2].id # 0

InvisibleSet ==
    {13} \cup (8203 .. 8207) \cup (8234 .. 8238) \cup (8288 .. 8292)
         \cup (8294 .. 8303) \cup {65279}

(***************************************************************************)
(* C10.  Every character of the invisible set resolves at every provider   *)
(* to the default glyph (advance width 0, empty UV rect), whether or not   *)
(* the typeface has a glyph for it, without locking the atlas or           *)
(* allocating; an aggregator over a non-empty list resolves it to          *)
(* (0, default glyph).                                                     *)
(***************************************************************************)
C10_InvisibleSet ==
    /\ \A p \in Providers, c \in InvisibleSet :
           LET r == FontImpl_glyph_info(World, p, c)
           IN  /\ r.ret = Some(GlyphInfoDefault)
               /\ r.ret.val.advance_width = 0
               /\ is_nothing(r.ret.val.uv_rect)
               /\ r.w.atlas = atlas
               /\ \A i \in DOMAIN r.w.trace :
                      r.w.trace[i].ev \notin {"lock", "allocate", "allocate_glyph"}
               /\ \A k \in DOMAIN atlas.regions :
                      ~(atlas.regions[k].font = p /\ atlas.regions[k].chr = c)
    /\ \A a \in FontSlots, c \in InvisibleSet :
           (font[a].constructed /\ font[a].fonts # <<>>) =>
               Font_glyph_info(World, font[a], c).ret = <<0, GlyphInfoDefault>>
    /\ \A i \in DOMAIN ret.trace :
           ret.trace[i].chr \in InvisibleSet
               => ret.trace[i].ev \in {"glyph_info", "hit", "insert"}

\* Carriage return, for which the first provider's typeface has a glyph,
\* resolves to that provider and the default glyph.
C10_Witness ==
    /\ ret.op = "font_impl_and_glyph_info"
    /\ ret.arg = CR
    /\ MissOn(ret.font, CR)
    /\ font[ret.font].fonts # <<>>
    /\ Face_glyph_id(font_impls[font[ret.font].fonts[1]].ab_glyph_font, CR) # 0
    /\ ret.val = [panic |-> FALSE, font_impl |-> Some(font[ret.font].fonts[1]),
                  glyph_info |-> GlyphInfoDefault]
    /\ glyph_info_cache[font[ret.font].fonts[1]][CR] = GlyphInfoDefault

\* The events of a trace that rasterize or allocate.
AtlasEvents == {"allocate_glyph", "lock", "allocate", "draw", "unlock"}

\* Resolving c at provider p from world w allocates nothing for c itself:
\* whatever the call allocates is for the space it looks up.
AllocatesOnlyForSpace(r, p, c) ==
    /\ \A i \in DOMAIN r.w.trace :
           r.w.trace[i].ev \in AtlasEvents => r.w.trace[i].chr = SPACE
    /\ \A k \in DOMAIN r.w.atlas.regions :
           ~(r.w.atlas.regions[k].font = p /\ r.w.atlas.regions[k].chr = c)

(***************************************************************************)
(* C11.  Tab: for any provider in which space resolves to a glyph,         *)
(* resolving tab yields TAB_SIZE times the advance width of space with the *)
(* UV rect and glyph id of space, allocates nothing in the atlas for tab,  *)
(* and leaves both space and tab in the provider cache, whether or not     *)
(* space was resolved before; a cached tab is that glyph.                  *)
(***************************************************************************)
C11_TabInvariant ==
    \A p \in Providers :
        Supplies(World, p, SPACE) =>
            LET space == Answer(World, p, SPACE).val
                tab == FontImpl_glyph_info(World, p, TAB)
            IN  /\ tab.ret.some
                /\ tab.ret.val.advance_width = TAB_SIZE * space.advance_width
                /\ tab.ret.val.uv_rect = space.uv_rect
                /\ tab.ret.val.id = space.id
                /\ AllocatesOnlyForSpace(tab, p, TAB)
                /\ {SPACE, TAB} \subseteq DOMAIN tab.w.cache[p]
                /\ tab.w.cache[p][SPACE] = space
                /\ tab.w.cache[p][TAB] = tab.ret.val
                /\ TAB \in DOMAIN glyph_info_cache[p]
                       => /\ SPACE \in DOMAIN glyph_info_cache[p]
                          /\ glyph_info_cache[p][TAB] = tab.ret.val

\* The width of a tab is asked of a provider that had resolved neither tab
\* nor space, and whose space has pixels: the call allocates for space only
\* and returns TAB_SIZE times the width of space.
C11_Witness ==
    /\ ret.op = "glyph_width"
    /\ ret.arg = TAB
    /\ MissOn(ret.font, TAB)
    /\ font[ret.font].fonts # <<>>
    /\ LET p == font[ret.font].fonts[1]
       IN  /\ SPACE \notin DOMAIN pre.glyph_info_cache[p]
           /\ {SPACE, TAB} \subseteq DOMAIN glyph_info_cache[p]
           /\ ret.val = TAB_SIZE * glyph_info_cache[p][SPACE].advance_width
           /\ ret.val > 0
           /\ ~is_nothing(glyph_info_cache[p][TAB].uv_rect)
           /\ \E i \in DOMAIN ret.trace : IsEv(ret.trace[i], "allocate", p, SPACE)

KeptBy(old, new) ==
    /\ DOMAIN old \subseteq DOMAIN new
    /\ \A c \in DOMAIN old : new[c] = old[c]

\* One step keeps every entry of every provider cache and of the cache of
\* every aggregator that exists.
CachesGrow ==
    /\ \A p \in Providers : KeptBy(glyph_info_cache[p], glyph_info_cache'[p])
    /\ \A a \in FontSlots :
           font[a].constructed
               => /\ font'[a].constructed
                  /\ KeptBy(font[a].glyph_info_cache, font'[a].glyph_info_cache)

\* Within the last call a provider inserted only characters it had not cached.
InsertsOnlyOnMiss ==
    \A i \in DOMAIN ret.trace :
        ret.trace[i].ev = "insert"
            => ~CachedBefore(i, ret.trace[i].font, ret.trace[i].chr)

\* glyph_info_no_cache_or_fallback, were it run for a character the
\* aggregator has cached, would store the pair that is there.
NoCacheKeepsEntries ==
    \A a \in FontSlots, c \in Chars :
        font[a].constructed =>
            KeptBy(font[a].glyph_info_cache,
                   Font_glyph_info_no_cache_or_fallback(World, font[a], c)
                       .f.glyph_info_cache)

(***************************************************************************)
(* C13.  Both glyph caches are append-only: no step of any operation       *)
(* removes a character from a provider cache or an aggregator cache or     *)
(* replaces the value stored under it; a provider inserts only on a miss,  *)
(* and the insert of glyph_info_no_cache_or_fallback never replaces an     *)
(* entry by a different pair.                                              *)
(***************************************************************************)
C13_CachesAppendOnly ==
    /\ [][CachesGrow]_vars
    /\ [](InsertsOnlyOnMiss /\ NoCacheKeepsEntries)

\* A third call adds a character to a provider cache and to an aggregator
\* cache that both held entries before, and the old entries are still there.
C13_Witness ==
    /\ ret.calls = 3
    /\ ret.op \in ResolveOps
    /\ pre.font[ret.font].constructed
    /\ font[ret.font].fonts # <<>>
    /\ LET p == font[ret.font].fonts[1]
       IN  /\ Cardinality(DOMAIN pre.glyph_info_cache[p]) >= 2
           /\ ret.arg \notin DOMAIN pre.glyph_info_cache[p]
           /\ ret.arg \in DOMAIN glyph_info_cache[p]
           /\ KeptBy(pre.glyph_info_cache[p], glyph_info_cache[p])
    /\ Cardinality(DOMAIN pre.font[ret.font].glyph_info_cache) >= 2
    /\ ret.arg \notin DOMAIN pre.font[ret.font].glyph_info_cache
    /\ ret.arg \in DOMAIN font[ret.font].glyph_info_cache
    /\ KeptBy(pre.font[ret.font].glyph_info_cache, font[ret.font].glyph_info_cache)

\* The points of glyph_info between the lock of the atlas and the end of its
\* block: the lock is taken, and the allocation or a pixel write is next, or
\* the last pixel is written and the guard is about to be dropped.
InAtlasBlock == {"allocate", "draw", "atlas_unlock"}

\* The locks of provider caches thread t holds.
CacheLocksHeld(t) ==
    {p \in Providers : t \in cache_lock[p].readers \/ cache_lock[p].writer = t}

\* In the atlas log every allocation is followed by the pixel writes of the
\* thread that made it, before anything of another thread.
SectionsDoNotInterleave ==
    \A i \in DOMAIN atlas_log :
        atlas_log[i].ev = "allocate" =>
            \A k \in 1 .. PixelWrites :
                i + k <= Len(atlas_log)
                    => atlas_log[i + k] = [ev |-> "write", thread |-> atlas_log[i].thread]

\* Some thread is in a call and no thread can take a step.
Deadlocked ==
    /\ \E t \in Threads : th[t].stack # <<>>
    /\ ~ENABLED (\E t \in Threads : ThreadStep(t))

(***************************************************************************)
(* C14.  Atlas critical section, with providers resolving on different     *)
(* threads over one atlas: a thread holds the atlas lock exactly from the  *)
(* allocation to the last pixel write of one glyph, so allocations and     *)
(* pixel writes of different threads never interleave; the lock is         *)
(* released before the insert into the provider cache; no thread holds a   *)
(* cache lock while it acquires or holds the atlas lock, also not across   *)
(* the recursive lookup of space; and no deadlock is reachable.            *)
(***************************************************************************)
C14_AtlasCriticalSection ==
    /\ SectionsDoNotInterleave
    /\ \A t \in Threads :
           /\ Pc(t) \in InAtlasBlock <=> atlas_lock = t
           /\ Pc(t) \in {"write_lock", "insert"} => atlas_lock # t
           /\ (Pc(t) = "atlas_lock" \/ atlas_lock = t) => CacheLocksHeld(t) = {}
           /\ Pc(t) \in {"read_lock", "write_lock", "rules", "space_returned"}
                  => CacheLocksHeld(t) = {}
    /\ ~Deadlocked

\* A thread has allocated a region for one provider and written the first
\* pixel, while the other thread, resolving for another provider, waits for
\* the atlas lock.
C14_Witness ==
    \E t, u \in Threads :
        /\ Pc(t) = "draw"
        /\ Top(t).drawn = 1
        /\ atlas_lock = t
        /\ Pc(u) = "atlas_lock"
        /\ th[u].p # th[t].p
        /\ Len(atlas_log) >= 2

\* The last call left the provider caches, the atlas and every aggregator as
\* they were, and asked no provider.
LastCallChangedNothing ==
    /\ glyph_info_cache = pre.glyph_info_cache
    /\ atlas = pre.atlas
    /\ font = pre.font
    /\ ret.trace = <<>>

(***************************************************************************)
(* C15.  Font::uv_rect(c) is a pure read of the aggregator cache: it       *)
(* returns the empty default UV rect when this aggregator has not resolved *)
(* c, whatever its providers could supply or have cached, the UV rect of   *)
(* the cached pair otherwise, and changes no cache and not the atlas.      *)
(***************************************************************************)
C15_UvRectPureRead ==
    ret.op = "uv_rect" =>
        /\ LastCallChangedNothing
        /\ LET cache == pre.font[ret.font].glyph_info_cache
           IN  IF ret.arg \in DOMAIN cache
               THEN ret.val = cache[ret.arg][2].uv_rect
               ELSE ret.val = UvRectDefault /\ is_nothing(ret.val)

\* uv_rect is asked for a character this aggregator never resolved, although
\* a provider of its list has it cached, with pixels, from another
\* aggregator: the empty default is returned.
C15_Witness ==
    /\ ret.op = "uv_rect"
    /\ ret.arg \notin DOMAIN font[ret.font].glyph_info_cache
    /\ ret.val = UvRectDefault
    /\ \E i \in DOMAIN font[ret.font].fonts :
           LET p == font[ret.font].fonts[i]
           IN  /\ ret.arg \in DOMAIN glyph_info_cache[p]
               /\ ~is_nothing(glyph_info_cache[p][ret.arg].uv_rect)

\* U+0020..U+007E, the degree sign and the password-mask character.
CommonSet == (32 .. 126) \cup {176, 8226}

\* A call of glyph_width or has_glyph for c on aggregator a, from the current
\* state, asks no provider and changes neither the atlas nor any cache.
ResolvesFromCache(a, c) ==
    LET width == Font_glyph_width(World, font[a], c)
        has == Font_has_glyph(World, font[a], c)
    IN  /\ width.w = World
        /\ has.w = World
        /\ width.f = font[a]
        /\ has.f = font[a]
        /\ Font_uv_rect(font[a], c) = font[a].glyph_info_cache[c][2].uv_rect

(***************************************************************************)
(* C16.  Preloading front-loads all cost: after preload_characters(s)      *)
(* every character of s, and after preload_common_characters every         *)
(* character of U+0020..U+007E, the degree sign and the password-mask      *)
(* character, is in the aggregator cache; a later glyph_width, has_glyph   *)
(* or uv_rect for a character in the aggregator cache asks no provider and *)
(* allocates nothing in the atlas.                                         *)
(***************************************************************************)
C16_PreloadFrontLoads ==
    /\ ret.op = "preload_characters"
           => \A i \in DOMAIN ret.arg :
                  /\ ret.arg[i] \in DOMAIN font[ret.font].glyph_info_cache
                  /\ ResolvesFromCache(ret.font, ret.arg[i])
    /\ ret.op = "preload_common_characters"
           => /\ CommonSet \subseteq DOMAIN font[ret.font].glyph_info_cache
              /\ \A c \in CommonSet \cap Chars : ResolvesFromCache(ret.font, c)
    /\ (/\ ret.op \in {"glyph_width", "has_glyph", "uv_rect"}
        /\ ret.arg \in DOMAIN pre.font[ret.font].glyph_info_cache)
           => LastCallChangedNothing

\* An aggregator is constructed, preloads a string with a letter and a tab,
\* and is then asked the width of the tab: no provider is asked.
C16_Witness ==
    /\ ret.op = "glyph_width"
    /\ ret.calls = 3
    /\ ret.arg = TAB
    /\ font[3 - ret.font] = NoFont
    /\ {LETTER_A, TAB} \subseteq DOMAIN pre.font[ret.font].glyph_info_cache
    /\ CommonSet \ DOMAIN pre.font[ret.font].glyph_info_cache # {}
    /\ ret.val > 0
    /\ LastCallChangedNothing

(***************************************************************************)
(* C17.  Provider construction panics, producing no provider, whenever the *)
(* requested pixel scale is not greater than 0 or pixels-per-point is not  *)
(* greater than 0, and touches no atlas or cache state before it does;     *)
(* with both greater than 0 a provider is produced.                        *)
(***************************************************************************)
C17_ConstructionAborts ==
    ret.op = "FontImpl::new" =>
        /\ (ret.arg[1] <= 0 \/ ret.arg[2] <= 0) => ret.val = Panic
        /\ (ret.arg[1] > 0 /\ ret.arg[2] > 0)
               => /\ ret.val # Panic
                  /\ ret.val.pixels_per_point = ret.arg[1]
                  /\ ret.val.scale_in_pixels = ret.arg[2]
        /\ LastCallChangedNothing
        /\ NoThreads

\* A provider is requested with pixel scale 0 and a positive
\* pixels-per-point, after the atlas has been allocated from: it panics.
C17_Witness ==
    /\ ret.op = "FontImpl::new"
    /\ ret.arg[1] > 0
    /\ ret.arg[2] = 0
    /\ ret.val = Panic
    /\ atlas.regions # <<>>

\* Every aggregator has the row height and pixels-per-point of the first
\* provider of its list (0 and 1 over the empty list), and row_height and
\* ascent return them.
ConstructionCopies ==
    /\ \A a \in FontSlots :
           font[a].constructed =>
               IF font[a].fonts = <<>>
               THEN /\ font[a].row_height = 0
                    /\ font[a].pixels_per_point = 1
                    /\ Font_ascent(font[a]) = 0
               ELSE LET first == font_impls[font[a].fonts[1]]
                    IN  /\ font[a].row_height = FontImpl_row_height(first)
                        /\ font[a].pixels_per_point = FontImpl_pixels_per_point(first)
                        /\ Font_ascent(font[a]) = FontImpl_ascent(first)
    /\ ret.op = "row_height" => ret.val = font[ret.font].row_height
    /\ ret.op = "ascent" => ret.val = Font_ascent(font[ret.font])
    /\ ret.op = "new" => font[ret.font].fonts = ret.arg

\* One step changes no provider and, of an aggregator that exists, neither
\* row height, pixels-per-point, ascent, provider list nor replacement pair.
ConstructionFixed ==
    /\ font_impls' = font_impls
    /\ \A a \in FontSlots :
           font[a].constructed =>
               /\ font'[a].row_height = font[a].row_height
               /\ font'[a].pixels_per_point = font[a].pixels_per_point
               /\ font'[a].fonts = font[a].fonts
               /\ font'[a].replacement_glyph = font[a].replacement_glyph
               /\ Font_ascent(font'[a]) = Font_ascent(font[a])

(***************************************************************************)
(* C18.  Row height and pixels-per-point are fixed at construction: those  *)
(* of an aggregator equal those of the first provider of its list (0 and 1 *)
(* for the empty list), and no operation changes row height,               *)
(* pixels-per-point, ascent, the provider list or the replacement pair     *)
(* afterwards.                                                             *)
(***************************************************************************)
C18_FixedAtConstruction ==
    /\ []ConstructionCopies
    /\ [][ConstructionFixed]_vars

\* An aggregator over two providers that has resolved a character from the
\* second is asked its row height: it is that of the first, which differs
\* from that of the second.
C18_Witness ==
    /\ ret.op = "row_height"
    /\ ret.calls = 3
    /\ Len(font[ret.font].fonts) = 2
    /\ ret.val = FontImpl_row_height(font_impls[font[ret.font].fonts[1]])
    /\ ret.val # FontImpl_row_height(font_impls[font[ret.font].fonts[2]])
    /\ \E c \in DOMAIN font[ret.font].glyph_info_cache :
           /\ font[ret.font].glyph_info_cache[c][1] = 1
           /\ font[ret.font].glyph_info_cache[c] # font[ret.font].replacement_glyph

(***************************************************************************)
(* C19.  UV texel coordinates are 16-bit and cover an atlas of up to       *)
(* 65536 x 65536 texels: for every glyph allocated with non-zero width w   *)
(* and height h at atlas position (x, y) with x + w <= 65536 and           *)
(* y + h <= 65536, the UV rect stored for it has min = (x, y) and          *)
(* exclusive max = (x + w, y + h), so min < max in both components and     *)
(* is_nothing is false.                                                    *)
(***************************************************************************)
C19_UvTexelsCoverAtlas ==
    \A k \in DOMAIN atlas.regions :
        LET r == atlas.regions[k]
            x == r.pos[1]
            y == r.pos[2]
            w == r.size[1]
            h == r.size[2]
        IN  (/\ w # 0
             /\ h # 0
             /\ x + w <= 65536
             /\ y + h <= 65536
             /\ r.chr \in DOMAIN glyph_info_cache[r.font])
                => LET uv == glyph_info_cache[r.font][r.chr].uv_rect
                   IN  /\ uv.min = <<x, y>>
                       /\ uv.max = <<x + w, y + h>>
                       /\ uv.min[1] < uv.max[1]
                       /\ uv.min[2] < uv.max[2]
                       /\ ~is_nothing(uv)

(***************************************************************************)
(* C20.  Reverse support index: Font::characters builds its map only on    *)
(* the first call and returns the same memoized map on every later call    *)
(* without scanning any provider again; the map contains a character c     *)
(* exactly when at least one provider's enumeration (the typeface's code   *)
(* points minus that provider's ignore list) contains c, and the value for *)
(* c lists the names of those providers in provider-list order.            *)
(***************************************************************************)
Enumerates(p, c) ==
    /\ c \in Face_codepoints(font_impls[p].ab_glyph_font)
    /\ ~ignore_character(font_impls[p], c)

\* The names of the providers among fonts[1 .. i] that enumerate c, in order.
RECURSIVE NamesUpTo(_, _, _)
NamesUpTo(fonts, c, i) ==
    IF i = 0
    THEN <<>>
    ELSE IF Enumerates(fonts[i], c)
         THEN Append(NamesUpTo(fonts, c, i - 1), font_impls[fonts[i]].name)
         ELSE NamesUpTo(fonts, c, i - 1)

ScanEvents(trace) == SelectSeq(trace, LAMBDA e : e.ev = "characters")

CharactersIsTheIndex ==
    ret.op = "characters" =>
        LET f == font[ret.font]
            before == pre.font[ret.font]
        IN  /\ f = [before EXCEPT !.characters = Some(ret.val)]
            /\ glyph_info_cache = pre.glyph_info_cache
            /\ atlas = pre.atlas
            /\ DOMAIN ret.val =
                  {c \in UNION {DOMAIN font_impls[p].ab_glyph_font.cmap : p \in Providers} :
                      \E i \in 1 .. Len(f.fonts) : Enumerates(f.fonts[i], c)}
            /\ \A c \in DOMAIN ret.val :
                  ret.val[c] = NamesUpTo(f.fonts, c, Len(f.fonts))
            /\ IF before.characters.some
               THEN /\ ret.val = before.characters.val
                    /\ ret.trace = <<>>
               ELSE /\ ret.trace = ScanEvents(ret.trace)
                    /\ [k \in 1 .. Len(ret.trace) |-> ret.trace[k].font] = f.fonts

IndexMemoized ==
    \A a \in FontSlots :
        (font[a].constructed /\ font[a].characters.some)
            => font'[a].characters = font[a].characters

C20_ReverseIndexMemoized == []CharactersIsTheIndex /\ [][IndexMemoized]_vars

\* A second call on a font of two providers that share a character.
C20_Witness ==
    /\ ret.op = "characters"
    /\ pre.font[ret.font].characters.some
    /\ Len(font[ret.font].fonts) = 2
    /\ ret.trace = <<>>
    /\ \E c \in DOMAIN ret.val : Len(ret.val[c]) = 2
    /\ \E c \in DOMAIN ret.val : Len(ret.val[c]) = 1
    /\ \E i \in 1 .. 2 : \E c \in Face_codepoints(font_impls[font[ret.font].fonts[i]].ab_glyph_font) :
          ~Enumerates(font[ret.font].fonts[i], c)

(***************************************************************************)
(* C21.  For a successfully constructed provider, row_height() equals      *)
(* ascent + descent + line_gap rounded to the GUI grid unit, where ascent, *)
(* descent and line gap are the typeface's scaled metrics at the requested *)
(* pixel scale converted to points.  As stated (the sum is rounded; the    *)
(* descent counted by its magnitude) this fails: the code rounds the three *)
(* metrics one by one and adds the rounded values.                         *)
(***************************************************************************)
GridUnit == POINT \div GRID

\* The typeface's scaled metrics of provider p, in pixels.
Metrics(p) == font_impls[p].ab_glyph_font

RoundedSum(p) ==
    round_ui(Metrics(p).ascent + Abs(Metrics(p).descent) + Metrics(p).line_gap,
             font_impls[p].pixels_per_point)

SumOfRounded(p) ==
    round_ui(Metrics(p).ascent, font_impls[p].pixels_per_point)
        - round_ui(Metrics(p).descent, font_impls[p].pixels_per_point)
        + round_ui(Metrics(p).line_gap, font_impls[p].pixels_per_point)

C21_RowHeightIsRoundedSum ==
    \A p \in Providers : FontImpl_row_height(font_impls[p]) = RoundedSum(p)

(***************************************************************************)
(* C21, amended.  row_height() is the sum of the three metrics in points,  *)
(* each rounded to the grid unit on its own (the descent, which is         *)
(* negative, subtracted): a multiple of the grid unit, at most one grid    *)
(* unit away from the rounded sum.  The aggregator's row_height() is that  *)
(* of its first provider.                                                  *)
(***************************************************************************)
C21_RowHeightIsSumOfRounded ==
    /\ \A p \in Providers :
          /\ FontImpl_row_height(font_impls[p]) = SumOfRounded(p)
          /\ FontImpl_row_height(font_impls[p]) % GridUnit = 0
          /\ Abs(FontImpl_row_height(font_impls[p]) - RoundedSum(p)) <= GridUnit
    /\ (ret.op = "row_height" /\ font[ret.font].fonts # <<>>)
          => ret.val = SumOfRounded(font[ret.font].fonts[1])

\* row_height() of a font whose first provider's metrics are off the grid.
C21_Witness ==
    /\ ret.op = "row_height"
    /\ font[ret.font].fonts # <<>>
    /\ ret.val = SumOfRounded(font[ret.font].fonts[1])
    /\ ret.val # RoundedSum(font[ret.font].fonts[1])
    /\ Metrics(font[ret.font].fonts[1]).descent < 0

(***************************************************************************)
(* C22.  The assertion in allocate_glyph (glyph id != 0) can never fire    *)
(* through glyph_info: for every character and provider state, a typeface  *)
(* glyph id of 0 makes FontImpl::glyph_info return "no glyph" without      *)
(* calling allocate_glyph, without locking the atlas and without inserting *)
(* anything in the provider cache; allocate_glyph is reached only with a   *)
(* non-zero id.  As stated this fails: tab, thin space and the invisible   *)
(* characters are resolved before the typeface is asked for a glyph id.    *)
(***************************************************************************)
ZeroId(p, c) == Face_glyph_id(font_impls[p].ab_glyph_font, c) = 0

AllocatesWithNonZeroId(trace) ==
    \A i \in DOMAIN trace : trace[i].ev = "allocate_glyph" => trace[i].id # 0

\* The call r changed nothing and asked the atlas for nothing.
NoGlyphAndNoEffect(r) ==
    /\ ~r.ret.some
    /\ r.w.cache = glyph_info_cache
    /\ r.w.atlas = atlas
    /\ \A i \in DOMAIN r.w.trace : r.w.trace[i].ev \notin AtlasEvents \cup {"insert"}

C22_ZeroIdIsNoGlyph ==
    /\ AllocatesWithNonZeroId(ret.trace)
    /\ \A p \in Providers, c \in AllChars :
          ZeroId(p, c) => NoGlyphAndNoEffect(FontImpl_glyph_info(World, p, c))

\* The rules glyph_info applies before it asks the typeface for a glyph id.
ResolvedBeforeGlyphId(p, c) ==
    \/ c \in DOMAIN glyph_info_cache[p]
    \/ /\ ~ignore_character(font_impls[p], c)
       /\ \/ c \in {TAB, THIN_SPACE} /\ Supplies(World, p, SPACE)
          \/ c \in InvisibleSet

ZeroIdResolution(p, c, r) ==
    /\ AllocatesWithNonZeroId(r.w.trace)
    /\ \A i \in DOMAIN r.w.trace :
          r.w.trace[i].ev \in AtlasEvents => r.w.trace[i].chr # c
    /\ IF ResolvedBeforeGlyphId(p, c)
       THEN r.ret.some /\ c \in DOMAIN r.w.cache[p]
       ELSE NoGlyphAndNoEffect(r)

(***************************************************************************)
(* C22, amended.  allocate_glyph is reached only with a non-zero id, so    *)
(* its assertion never fires.  A character whose typeface glyph id is 0    *)
(* is never allocated; it resolves to "no glyph" with no atlas lock, no    *)
(* allocation and no cache insert unless it is already cached, is tab or   *)
(* thin space at a provider whose space resolves, or is invisible: those   *)
(* resolve to a glyph and are cached.                                      *)
(***************************************************************************)
C22_AssertNeverFires ==
    /\ AllocatesWithNonZeroId(ret.trace)
    /\ \A p \in Providers, c \in AllChars :
          IF ZeroId(p, c)
          THEN ZeroIdResolution(p, c, FontImpl_glyph_info(World, p, c))
          ELSE AllocatesWithNonZeroId(FontImpl_glyph_info(World, p, c).w.trace)

\* In one call a provider whose typeface has no glyph for c answered "no
\* glyph" and the next provider allocated c with its non-zero id.
C22_Witness ==
    /\ ret.op \in ResolveOps
    /\ Len(font[ret.font].fonts) = 2
    /\ ret.arg \notin {TAB, THIN_SPACE} \cup InvisibleSet
    /\ QueriedFor(ret.arg) = font[ret.font].fonts
    /\ ZeroId(font[ret.font].fonts[1], ret.arg)
    /\ ret.arg \notin DOMAIN glyph_info_cache[font[ret.font].fonts[1]]
    /\ \E i \in DOMAIN ret.trace :
          /\ ret.trace[i].ev = "allocate_glyph"
          /\ ret.trace[i].font = font[ret.font].fonts[2]
          /\ ret.trace[i].chr = ret.arg
          /\ ret.trace[i].id # 0

(***************************************************************************)
(* C23.  Provider caching survives aggregator replacement: if a provider   *)
(* has resolved character c for one aggregator, then a second aggregator   *)
(* built over the same provider (in any list order, with any other         *)
(* providers) that resolves c through that provider gets the identical     *)
(* GlyphInfo and causes no new atlas allocation for c.                     *)
(***************************************************************************)
RegionsOf(a, p, c) ==
    {k \in DOMAIN a.regions : a.regions[k].font = p /\ a.regions[k].chr = c}

\* The last call left alone what provider p had resolved before it.
ResolvedStays(p, c) ==
    /\ glyph_info_cache[p][c] = pre.glyph_info_cache[p][c]
    /\ RegionsOf(atlas, p, c) = RegionsOf(pre.atlas, p, c)
    /\ \A i \in DOMAIN ret.trace :
          (ret.trace[i].ev \in AtlasEvents \cup {"insert"} /\ ret.trace[i].font = p)
              => ret.trace[i].chr # c

\* The characters the last call added to the cache of aggregator a.
NewlyResolved(a) ==
    IF pre.font[a].constructed
    THEN DOMAIN font[a].glyph_info_cache \ DOMAIN pre.font[a].glyph_info_cache
    ELSE DOMAIN font[a].glyph_info_cache

\* The provider the pair cached by aggregator a for c points to.
ThroughProvider(a, c) == font[a].fonts[font[a].glyph_info_cache[c][1] + 1]

C23_ProviderCacheSurvives ==
    /\ ret.op # "init" =>
          \A p \in Providers : \A c \in DOMAIN pre.glyph_info_cache[p] :
              ResolvedStays(p, c)
    /\ \A a \in FontSlots :
          (ret.op # "init" /\ font[a].constructed /\ font[a].fonts # <<>>) =>
              \A c \in NewlyResolved(a) :
                  c \in DOMAIN pre.glyph_info_cache[ThroughProvider(a, c)]
                      => font[a].glyph_info_cache[c][2]
                             = pre.glyph_info_cache[ThroughProvider(a, c)][c]
    /\ \A a, b \in FontSlots :
          (/\ font[a].constructed /\ font[a].fonts # <<>>
           /\ font[b].constructed /\ font[b].fonts # <<>>) =>
              \A c \in DOMAIN font[a].glyph_info_cache
                          \cap DOMAIN font[b].glyph_info_cache :
                  (/\ ThroughProvider(a, c) = ThroughProvider(b, c)
                   /\ c \in DOMAIN glyph_info_cache[ThroughProvider(a, c)])
                      => /\ font[a].glyph_info_cache[c][2] = font[b].glyph_info_cache[c][2]
                         /\ font[a].glyph_info_cache[c][2]
                                = glyph_info_cache[ThroughProvider(a, c)][c]
                         /\ Cardinality(RegionsOf(atlas, ThroughProvider(a, c), c)) <= 1

\* A second aggregator, over the providers in another order, resolves c
\* through the provider that allocated c for the first: the provider is not
\* the first of its list, and c has a region in the atlas.
C23_Witness ==
    /\ ret.op \in ResolveOps
    /\ Len(font[ret.font].fonts) = 2
    /\ ret.arg \in NewlyResolved(ret.font)
    /\ font[ret.font].glyph_info_cache[ret.arg][1] = 1
    /\ ret.arg \in DOMAIN pre.glyph_info_cache[ThroughProvider(ret.font, ret.arg)]
    /\ Cardinality(RegionsOf(pre.atlas, ThroughProvider(ret.font, ret.arg), ret.arg)) = 1
    /\ \A i \in DOMAIN ret.trace : ret.trace[i].ev \notin AtlasEvents
    /\ \E b \in FontSlots \ {ret.font} :
          /\ font[b].constructed
          /\ font[b].fonts # font[ret.font].fonts
          /\ ret.arg \in DOMAIN font[b].glyph_info_cache
          /\ ThroughProvider(b, ret.arg) = ThroughProvider(ret.font, ret.arg)
          /\ font[b].glyph_info_cache[ret.arg][2]
                = font[ret.font].glyph_info_cache[ret.arg][2]

(***************************************************************************)
(* C24.  A provider is shared through Arc and glyph_info takes a shared    *)
(* reference, with the cache lookup and the cache insert done under        *)
(* separate lock acquisitions.  When two threads resolve the same uncached *)
(* real-glyph character on the same provider concurrently, the atlas       *)
(* allocation for that character is still made exactly once and both       *)
(* threads receive the same UV rect, which is the one that stays in the    *)
(* cache.                                                                  *)
(***************************************************************************)
\* c has an outline with pixels in the typeface of provider p.
RealGlyph(p, c) ==
    LET face == font_impls[p].ab_glyph_font
        id == Face_glyph_id(face, c)
    IN  /\ id # 0
        /\ ~ignore_character(font_impls[p], c)
        /\ c \notin {TAB, THIN_SPACE} \cup InvisibleSet
        /\ face.glyphs[id].bb # NoOutline
        /\ face.glyphs[id].bb[3] # 0
        /\ face.glyphs[id].bb[4] # 0

\* What the calls of glyph_info(c) on provider p have returned so far.
ReturnedFor(p, c) ==
    UNION {{th[t].results[i].val :
               i \in {j \in DOMAIN th[t].results :
                          th[t].results[j].p = p /\ th[t].results[j].c = c}} :
           t \in Threads}

C24_ConcurrentAllocatesOnce ==
    \A p \in Providers, c \in ThreadChars :
        RealGlyph(p, c) =>
            /\ Cardinality(RegionsOf(atlas, p, c)) <= 1
            /\ \A v \in ReturnedFor(p, c) :
                  /\ v.some
                  /\ c \in DOMAIN glyph_info_cache[p]
                  /\ v.val.uv_rect = glyph_info_cache[p][c].uv_rect

(***************************************************************************)
(* C25.  Valid provider index: for an aggregator with a non-empty provider *)
(* list, in every reachable state the replacement pair's index and the     *)
(* index of every pair in the aggregator cache is smaller than the number  *)
(* of providers, so font_impl_and_glyph_info never indexes the provider    *)
(* list out of bounds; moreover every cached pair (i, g) is either the     *)
(* replacement pair or is what provider i returns for that character.      *)
(***************************************************************************)
ValidIndex(f, font_index) == font_index \in 0 .. Len(f.fonts) - 1

PairIsValid(f, c, pair) ==
    /\ ValidIndex(f, pair[1])
    /\ \/ pair = f.replacement_glyph
       \/ Answer(World, f.fonts[pair[1] + 1], c) = Some(pair[2])

C25_ValidProviderIndex ==
    /\ \A a \in FontSlots :
          (font[a].constructed /\ font[a].fonts # <<>>) =>
              /\ ValidIndex(font[a], font[a].replacement_glyph[1])
              /\ \A c \in DOMAIN font[a].glyph_info_cache :
                    PairIsValid(font[a], c, font[a].glyph_info_cache[c])
    /\ (ret.op = "font_impl_and_glyph_info" /\ font[ret.font].fonts # <<>>) =>
          /\ ~ret.val.panic
          /\ ret.val.font_impl.some
          /\ \E i \in DOMAIN font[ret.font].fonts :
                ret.val.font_impl.val = font[ret.font].fonts[i]

\* font_impl_and_glyph_info indexed the list with the index of a cached
\* pair that is not the replacement and points at the second provider, on an
\* aggregator that also caches the replacement pair for another character.
C25_Witness ==
    /\ ret.op = "font_impl_and_glyph_info"
    /\ Len(font[ret.font].fonts) = 2
    /\ ret.arg \in DOMAIN font[ret.font].glyph_info_cache
    /\ font[ret.font].glyph_info_cache[ret.arg][1] = 1
    /\ font[ret.font].glyph_info_cache[ret.arg] # font[ret.font].replacement_glyph
    /\ ret.val.font_impl = Some(font[ret.font].fonts[2])
    /\ \E c \in DOMAIN font[ret.font].glyph_info_cache :
          /\ font[ret.font].glyph_info_cache[c] = font[ret.font].replacement_glyph
          /\ ~Supplies(World, font[ret.font].fonts[1], c)
          /\ ~Supplies(World, font[ret.font].fonts[2], c)

(***************************************************************************)
(* C26.  Order independence: for two aggregators built over equal provider *)
(* lists, the provider index, glyph id and advance width resolved for a    *)
(* character c, and the value of has_glyph(c), are the same whatever       *)
(* characters were resolved before c and in whatever order (only the atlas *)
(* texel position inside the UV rect may depend on the order of earlier    *)
(* allocations).                                                           *)
(***************************************************************************)
\* Providers that have resolved nothing and an atlas with no region.
FreshWorld ==
    [cache |-> [p \in Providers |-> EmptyMap],
     atlas |-> [cursor |-> <<0, 0>>, row_height |-> 0, regions |-> <<>>],
     trace |-> <<>>]

\* c resolved first of all on a new aggregator over fonts.
ResolvedFirst(new, c) == Font_glyph_info(new.w, new.f, c).ret

HasGlyphFirst(new, c) == Font_has_glyph(new.w, new.f, c).ret

SameGlyph(pair, other) ==
    /\ pair[1] = other[1]
    /\ pair[2].id = other[2].id
    /\ pair[2].advance_width = other[2].advance_width
    /\ pair[2].uv_rect.offset = other[2].uv_rect.offset
    /\ pair[2].uv_rect.size = other[2].uv_rect.size

\* What aggregator f holds for c is what a new aggregator over the same list
\* resolves for c before anything else.
AsResolvedFirst(f, c) ==
    /\ SameGlyph(f.glyph_info_cache[c], ResolvedFirst(Font_new(FreshWorld, f.fonts), c))
    /\ (f.glyph_info_cache[c] # f.replacement_glyph)
          = HasGlyphFirst(Font_new(FreshWorld, f.fonts), c)

C26_OrderIndependent ==
    /\ \A a \in FontSlots :
          font[a].constructed =>
              \A c \in DOMAIN font[a].glyph_info_cache : AsResolvedFirst(font[a], c)
    /\ ret.op = "has_glyph" =>
          ret.val = HasGlyphFirst(Font_new(FreshWorld, font[ret.font].fonts), ret.arg)
    /\ ret.op = "glyph_width" =>
          ret.val = ResolvedFirst(Font_new(FreshWorld, font[ret.font].fonts),
                                  ret.arg)[2].advance_width
    /\ \A a, b \in FontSlots :
          (font[a].constructed /\ font[b].constructed /\ font[a].fonts = font[b].fonts) =>
              \A c \in DOMAIN font[a].glyph_info_cache \cap DOMAIN font[b].glyph_info_cache :
                  /\ SameGlyph(font[a].glyph_info_cache[c], font[b].glyph_info_cache[c])
                  /\ (font[a].glyph_info_cache[c] # font[a].replacement_glyph)
                        = (font[b].glyph_info_cache[c] # font[b].replacement_glyph)

\* c was resolved through the second provider after another character had
\* been allocated: its texel position is not the one it gets when resolved
\* first, all the rest is.
C26_Witness ==
    /\ ret.op \in {"glyph_width", "has_glyph"}
    /\ Len(font[ret.font].fonts) = 2
    /\ ret.arg \in NewlyResolved(ret.font)
    /\ font[ret.font].glyph_info_cache[ret.arg][1] = 1
    /\ font[ret.font].glyph_info_cache[ret.arg] # font[ret.font].replacement_glyph
    /\ pre.atlas.regions # <<>>
    /\ \E c \in DOMAIN pre.font[ret.font].glyph_info_cache :
          /\ c \notin {PRIMARY_REPLACEMENT_CHAR, FALLBACK_REPLACEMENT_CHAR}
          /\ ~is_nothing(pre.font[ret.font].glyph_info_cache[c][2].uv_rect)
    /\ font[ret.font].glyph_info_cache[ret.arg][2].uv_rect.min
          # ResolvedFirst(Font_new(FreshWorld, font[ret.font].fonts),
                          ret.arg)[2].uv_rect.min
    /\ AsResolvedFirst(font[ret.font], ret.arg)

====
